---------------------------- MODULE Spec2Model ----------------------------
(***************************************************************************)
(* Command framework: configuration assembly (registration of commands and *)
(* groups into dual-key registries) and message dispatch.                  *)
(*                                                                         *)
(*   src/src/configuration.rs   Configuration, BlockedEntities             *)
(*   src/src/command.rs         Command, CommandId, CommandBuilder         *)
(*   src/src/group.rs           Group, GroupId                             *)
(*   src/src/lib.rs             Framework::dispatch_with_hook              *)
(*                                                                         *)
(* The dual-key registry (IdMap), the tokenizer (parse::Segments) and the  *)
(* prefix resolver (parse::content) are not among the source files; they   *)
(* are modelled from their documented contract.                            *)
(***************************************************************************)
EXTENDS Naturals, Sequences, FiniteSets, TLC

VARIABLES conf, phase, ncalls, last, out, attr, lock, task, data, roots,
          walk

vars == <<conf, phase, ncalls, last, out, attr, lock, task, data, roots,
          walk>>

(***************************************************************************)
(* Bounds of the model.                                                    *)
(***************************************************************************)
MaxCalls == 2
MaxTokens == 3
MaxArgs == 4
MaxCaseTokens == 2
MaxDepth == 5

(***************************************************************************)
(* Small helpers.                                                          *)
(***************************************************************************)
Range(s) == {s[i] : i \in 1..Len(s)}

NoId == "none"

\* str::to_lowercase on the names and tokens of the model.
ToLowercase(s) ==
    CASE s = "A" -> "a"
      [] s = "G" -> "g"
      [] s = "Foo" -> "foo"
      [] s = "FOO" -> "foo"
      [] OTHER -> s

(***************************************************************************)
(* IdMap<Name, Id, Value>: a name -> id table and an id -> value table.    *)
(* A table is a function whose DOMAIN is the set of bound keys.            *)
(***************************************************************************)
IdMapDefault == [names |-> <<>>, items |-> <<>>]

\* IdMap::insert_name: binds the name, overwriting an earlier binding.
insert_name(m, name, id) ==
    [m EXCEPT !.names = (name :> id) @@ m.names]

\* IdMap::insert: stores the value under its id, overwriting.
insert(m, id, value) ==
    [m EXCEPT !.items = (id :> value) @@ m.items]

\* IdMap::get_pair: the (id, value) a name leads to; an Option as a set.
get_pair(m, name) ==
    IF name \in DOMAIN m.names /\ m.names[name] \in DOMAIN m.items
    THEN {[id |-> m.names[name], value |-> m.items[m.names[name]]]}
    ELSE {}

\* IdMap::get_by_name: the value a name leads to; an Option as a set.
get_by_name(m, name) == {p.value : p \in get_pair(m, name)}

\* IdMap::contains of the id table, the guard of Index<Id>.
contains_id(m, id) == id \in DOMAIN m.items


(***************************************************************************)
(* The embedding application: the command and group constructors it        *)
(* declares.  An id is the constructor itself (its address), so the        *)
(* constructor's name stands for the id.                                   *)
(***************************************************************************)
CoreCommandIds == {"cA", "cB", "cC", "cD", "cE"}
CoreGroupIds == {"gT", "gG", "gH", "gD", "gBad"}
CommandIds == CoreCommandIds \cup {"cF", "cFoo"}
GroupIds == CoreGroupIds \cup {"gE", "gN", "gS", "gFoo"}
\* Constructors whose references run in a circle.
CyclicCommandIds == {"cSelf", "cPing", "cPong"}
CyclicGroupIds == {"gLoop", "gZ"}
UserIds == {"u1", "u2"}
ChannelIds == {"ch1", "ch2"}
GuildIds == {"gu1"}
Tokens == {"g", "h", "a", "A"}
Prefixes == {"!"}

\* Command::default: the value a CommandBuilder starts from.
CommandDefault == [id |-> NoId, function |-> "fn_default", names |-> <<>>,
                   subcommands |-> {}]

\* The constructors (fn() -> Command): CommandBuilder::new(name), .name,
\* .names, .function, .subcommand, .build.  The id field is the default
\* one, or (cC) one the constructor wrote into the public field itself:
\* registration sets it.
CommandConstructor(c) ==
    CASE c = "cA" -> [CommandDefault EXCEPT !.function = "fn_cA",
                        !.names = <<"a">>, !.subcommands = {"cB"}]
      [] c = "cB" -> [CommandDefault EXCEPT !.function = "fn_cB",
                        !.names = <<"b", "h">>]
      [] c = "cC" -> [CommandDefault EXCEPT !.id = "cA",
                        !.function = "fn_cC", !.names = <<"a", "c">>]
      [] c = "cD" -> [CommandDefault EXCEPT !.function = "fn_cD",
                        !.names = <<"A">>, !.subcommands = {"cA", "cC"}]
      [] c = "cE" -> [CommandDefault EXCEPT !.function = "fn_cE"]
      [] c = "cF" -> [CommandDefault EXCEPT !.function = "fn_cF",
                        !.names = <<"f">>, !.subcommands = {"cE"}]
      [] c = "cFoo" -> [CommandDefault EXCEPT !.function = "fn_cFoo",
                        !.names = <<"Foo">>]
      [] c = "cSelf" -> [CommandDefault EXCEPT !.function = "fn_cSelf",
                        !.names = <<"s">>, !.subcommands = {"cSelf"}]
      [] c = "cPing" -> [CommandDefault EXCEPT !.function = "fn_cPing",
                        !.names = <<"p">>, !.subcommands = {"cPong"}]
      [] c = "cPong" -> [CommandDefault EXCEPT !.function = "fn_cPong",
                        !.names = <<"q">>, !.subcommands = {"cPing"}]

\* Group as Configuration and dispatch_with_hook use it: id, prefixes, the
\* ids of its commands and subgroups, and the optional default command.
GroupDefault == [id |-> NoId, name |-> "", prefixes |-> <<>>, commands |-> {},
                 subgroups |-> {}, default_command |-> NoId]

\* The constructors (fn() -> Group); gH's writes an id of its own.
GroupConstructor(g) ==
    CASE g = "gT" -> [GroupDefault EXCEPT !.name = "T",
                        !.commands = {"cA", "cD"}]
      [] g = "gG" -> [GroupDefault EXCEPT !.name = "G", !.prefixes = <<"g">>,
                        !.commands = {"cA", "cB"}, !.subgroups = {"gH"}]
      [] g = "gH" -> [GroupDefault EXCEPT !.id = "gG", !.name = "H",
                        !.prefixes = <<"h">>, !.commands = {"cA", "cC"},
                        !.default_command = "cC"]
      [] g = "gD" -> [GroupDefault EXCEPT !.name = "D", !.prefixes = <<"A">>,
                        !.commands = {"cD"}, !.default_command = "cE"]
      [] g = "gBad" -> [GroupDefault EXCEPT !.name = "Bad",
                        !.subgroups = {"gH"}]
      [] g = "gE" -> [GroupDefault EXCEPT !.name = "E", !.prefixes = <<"e">>,
                        !.commands = {"cE", "cF"}]
      [] g = "gN" -> [GroupDefault EXCEPT !.name = "N",
                        !.commands = {"cE"}]
      [] g = "gS" -> [GroupDefault EXCEPT !.name = "S", !.prefixes = <<"s">>,
                        !.commands = {"cB"}, !.subgroups = {"gN"}]
      [] g = "gFoo" -> [GroupDefault EXCEPT !.name = "Foo",
                        !.prefixes = <<"Foo">>, !.commands = {"cFoo"}]
      [] g = "gLoop" -> [GroupDefault EXCEPT !.name = "Loop",
                        !.prefixes = <<"l">>, !.subgroups = {"gLoop"}]
      [] g = "gZ" -> [GroupDefault EXCEPT !.name = "Z",
                        !.commands = {"cSelf"}]

RECURSIVE GroupBuilds(_)
\* GroupBuilder::subgroup adds the subgroup through GroupMap::add, which
\* calls the subgroup's constructor and asserts that it has a prefix: the
\* constructor of g returns unless that assert fails for a group below g.
GroupBuilds(g) ==
    \A s \in GroupConstructor(g).subgroups :
        GroupBuilds(s) /\ GroupConstructor(s).prefixes # <<>>

\* From<CommandConstructor> for CommandId, From<GroupConstructor> for GroupId:
\* the id is the constructor's address.
\* An id taken from the command's first name rather than from its address.
CommandIdFromName(c) ==
    IF CommandConstructor(c).names = <<>> THEN c
    ELSE CommandConstructor(c).names[1]

CommandIdFrom(c) == c
GroupIdFrom(g) == g

(***************************************************************************)
(* Configuration.                                                          *)
(***************************************************************************)
BlockedEntitiesDefault ==
    [channels |-> {}, guilds |-> {}, users |-> {}, commands |-> {},
     groups |-> {}]

\* Configuration::default
ConfigurationDefault ==
    [prefixes |-> <<>>, case_insensitive |-> FALSE,
     blocked_entities |-> BlockedEntitiesDefault,
     groups |-> IdMapDefault, top_level_groups |-> <<>>,
     commands |-> IdMapDefault]

\* Configuration::prefix
ConfPrefix(cf, p) == [cf EXCEPT !.prefixes = Append(@, p)]

\* The name as registered: lower-cased when case_insensitive is set.
RegisteredName(cf, name) ==
    IF cf.case_insensitive THEN ToLowercase(name) ELSE name

\* A registration ends "ok" or in a panic (an assert! that failed); st says
\* which, conf is the configuration as the call left it.
Outcome(cf, st) == [conf |-> cf, st |-> st]

(***************************************************************************)
(* Registration.  A HashSet is iterated in an arbitrary order, so a walk   *)
(* over a set of ids yields the set of the outcomes of every order.        *)
(***************************************************************************)
\* The loop over command.names binding the first name only.
CommandNamesFirstOnly(cf, names, i, id) ==
    [cf EXCEPT !.commands = insert_name(@, RegisteredName(cf, names[1]), id)]

RECURSIVE CommandNamesKeepBound(_, _, _, _)
\* The loop over command.names leaving a name that is already bound alone.
CommandNamesKeepBound(cf, names, i, id) ==
    IF i > Len(names) THEN cf
    ELSE CommandNamesKeepBound(
            IF RegisteredName(cf, names[i]) \in DOMAIN cf.commands.names
            THEN cf
            ELSE [cf EXCEPT !.commands =
                    insert_name(@, RegisteredName(cf, names[i]), id)],
            names, i + 1, id)

RECURSIVE CommandNames(_, _, _, _)
\* Configuration::command, the loop over command.names.
CommandNames(cf, names, i, id) ==
    IF i > Len(names) THEN cf
    ELSE CommandNames(
            [cf EXCEPT !.commands =
                insert_name(@, RegisteredName(cf, names[i]), id)],
            names, i + 1, id)

\* Configuration::command, the final self.commands.insert(id, command).
CommandStoreSkipped(cf, id, command) == cf

\* A final insert of the command with the id its constructor left in it.
CommandStoreAsBuilt(cf, id, command) ==
    [cf EXCEPT !.commands =
        insert(@, id, [command EXCEPT !.id = CommandConstructor(id).id])]

CommandStore(cf, id, command) ==
    [cf EXCEPT !.commands = insert(@, id, command)]

RECURSIVE Command(_, _), CommandEach(_, _)
\* Configuration::command
Command(cf, ctor) ==
    LET id == CommandIdFrom(ctor)
        command == [CommandConstructor(ctor) EXCEPT !.id = id]
    IN  IF command.names = <<>>
        THEN {Outcome(cf, "panic")}
        ELSE LET named == CommandNames(cf, command.names, 1, id)
                 walked == CommandEach({Outcome(named, "ok")},
                                       command.subcommands)
             IN  {IF o.st = "ok"
                  THEN Outcome(CommandStore(o.conf, id, command), "ok")
                  ELSE o : o \in walked}

\* self.command(constructor) for each id of a set, in every order.
CommandEach(outs, ids) ==
    IF ids = {} THEN outs
    ELSE UNION {CommandEach(
                    UNION {IF o.st = "ok" THEN Command(o.conf, x) ELSE {o}
                           : o \in outs},
                    ids \ {x})
                : x \in ids}

RECURSIVE GroupPrefixes(_, _, _, _)
\* Configuration::_group, the loop over group.prefixes.
GroupPrefixes(cf, prefixes, i, id) ==
    IF i > Len(prefixes) THEN cf
    ELSE GroupPrefixes(
            [cf EXCEPT !.groups =
                insert_name(@, RegisteredName(cf, prefixes[i]), id)],
            prefixes, i + 1, id)

RECURSIVE GroupWalk(_, _), GroupEach(_, _)
\* Configuration::_group
GroupWalk(cf, group) ==
    LET named == GroupPrefixes(cf, group.prefixes, 1, group.id)
        subs == GroupEach({Outcome(named, "ok")}, group.subgroups)
        cmds == CommandEach(subs, group.commands)
    IN  {IF o.st = "ok"
         THEN Outcome([o.conf EXCEPT !.groups = insert(@, group.id, group)],
                      "ok")
         ELSE o : o \in cmds}

\* Configuration::_group, the loop over group.subgroups, in every order.
GroupEach(outs, ids) ==
    IF ids = {} THEN outs
    ELSE UNION {GroupEach(
                    UNION {IF o.st = "ok"
                           THEN GroupWalk(o.conf,
                                    [GroupConstructor(x) EXCEPT !.id = x])
                           ELSE {o}
                           : o \in outs},
                    ids \ {x})
                : x \in ids}

\* Configuration::group without the assert on a zero-prefix group.
GroupUnasserted(cf, ctor) ==
    LET id == GroupIdFrom(ctor)
        group == [GroupConstructor(ctor) EXCEPT !.id = id]
    IN  IF ~GroupBuilds(ctor)
        THEN {Outcome(cf, "panic")}
        ELSE IF group.prefixes = <<>>
        THEN {Outcome([cf EXCEPT !.top_level_groups = Append(@, group)], "ok")}
        ELSE GroupWalk(cf, group)

\* Configuration::group.  The call group() panics when the constructor does.
Group(cf, ctor) ==
    LET id == GroupIdFrom(ctor)
        group == [GroupConstructor(ctor) EXCEPT !.id = id]
    IN  IF ~GroupBuilds(ctor)
        THEN {Outcome(cf, "panic")}
        ELSE IF group.prefixes = <<>>
        THEN IF group.subgroups # {}
             THEN {Outcome(cf, "panic")}
             ELSE {Outcome([cf EXCEPT !.top_level_groups = Append(@, group)],
                           "ok")}
        ELSE GroupWalk(cf, group)

(***************************************************************************)
(* Dispatch: Framework::dispatch_with_hook.                                *)
(*                                                                         *)
(* A message is [author, channel_id, guild_id, prefix, tokens]: guild_id   *)
(* is an Option (a set with at most one element), prefix is the text the   *)
(* content starts with and tokens are the delimiter-separated segments     *)
(* that follow it.                                                         *)
(***************************************************************************)
NoTarget == [function |-> NoId, group_id |-> NoId, command_id |-> NoId,
             command_name |-> "", prefix |-> "", args |-> <<>>]

NoError == [name |-> "", a |-> NoId, b |-> NoId]

\* What the resolution block of dispatch_with_hook ends in: the tuple it
\* breaks with, a DispatchError it returns, or a panic.  groups and commands
\* record the groups and commands the resolution went through.
Resolved(function, group_id, command_id, command_name, prefix, args, gs, cs) ==
    [kind |-> "Target", err |-> NoError,
     target |-> [function |-> function, group_id |-> group_id,
                 command_id |-> command_id, command_name |-> command_name,
                 prefix |-> prefix, args |-> args],
     groups |-> gs, commands |-> cs]

DispatchError(name, a, b, gs, cs) ==
    [kind |-> "Dispatch", err |-> [name |-> name, a |-> a, b |-> b],
     target |-> NoTarget, groups |-> gs, commands |-> cs]

Panicked(gs, cs) ==
    [kind |-> "Panic", err |-> NoError, target |-> NoTarget,
     groups |-> gs, commands |-> cs]

\* parse::content: the matched prefix and the content after it, or None.
content(cf, msg) ==
    IF \E i \in 1..Len(cf.prefixes) : cf.prefixes[i] = msg.prefix
    THEN {[prefix |-> msg.prefix, content |-> msg.tokens]}
    ELSE {}

\* parse::Segments::next: the segment handed out for a token of the source,
\* lower-cased when the segments are case-insensitive.
Segment(cf, token) ==
    IF cf.case_insensitive THEN ToLowercase(token) ELSE token

\* The three blocklist checks on the message's ids, without the channel one.
BlockedSenderNoChannel(cf, msg) ==
    IF msg.author \in cf.blocked_entities.users
    THEN {DispatchError("BlockedUser", msg.author, NoId, {}, {})}
    ELSE IF \E gid \in msg.guild_id : gid \in cf.blocked_entities.guilds
    THEN {DispatchError("BlockedGuild", gid, NoId, {}, {}) : gid \in msg.guild_id}
    ELSE {}

\* The three blocklist checks on the message's ids: the error returned, if any.
BlockedSender(cf, msg) ==
    IF msg.author \in cf.blocked_entities.users
    THEN {DispatchError("BlockedUser", msg.author, NoId, {}, {})}
    ELSE IF msg.channel_id \in cf.blocked_entities.channels
    THEN {DispatchError("BlockedChannel", msg.channel_id, NoId, {}, {})}
    ELSE IF \E gid \in msg.guild_id : gid \in cf.blocked_entities.guilds
    THEN {DispatchError("BlockedGuild", gid, NoId, {}, {}) : gid \in msg.guild_id}
    ELSE {}

RECURSIVE SubcommandLoopArgsKept(_, _, _, _, _, _, _, _, _)
\* A subcommand loop that leaves args where the command lookup set it.
SubcommandLoopArgsKept(cf, command, group, name, prefix, src, args, gs, cs) ==
    IF src = <<>>
    THEN Resolved(command.function, group.id, command.id, name, prefix, args,
                  gs, cs)
    ELSE LET sub == Segment(cf, Head(src))
             pair == get_pair(cf.commands, sub)
         IN  IF \E p \in pair : p.id \in cf.blocked_entities.commands
             THEN CHOOSE e \in {DispatchError("BlockedCommand", p.id, NoId,
                                              gs, cs) : p \in pair} : TRUE
             ELSE IF \E p \in pair : p.id \in command.subcommands
             THEN LET p == CHOOSE q \in pair : TRUE
                  IN  SubcommandLoopArgsKept(cf, p.value, group, name, prefix,
                                             Tail(src), args, gs,
                                             cs \cup {p.id})
             ELSE Resolved(command.function, group.id, command.id, name,
                           prefix, args, gs, cs)

RECURSIVE SubcommandLoop(_, _, _, _, _, _, _, _, _)
\* The subcommand loop and the tuple the block ends with.  src is the
\* unconsumed rest of the segments, args the rest captured as arguments.
SubcommandLoop(cf, command, group, name, prefix, src, args, gs, cs) ==
    IF src = <<>>
    THEN Resolved(command.function, group.id, command.id, name, prefix, args,
                  gs, cs)
    ELSE LET sub == Segment(cf, Head(src))
             pair == get_pair(cf.commands, sub)
         IN  IF \E p \in pair : p.id \in cf.blocked_entities.commands
             THEN CHOOSE e \in {DispatchError("BlockedCommand", p.id, NoId,
                                              gs, cs) : p \in pair} : TRUE
             ELSE IF \E p \in pair : p.id \in command.subcommands
             THEN LET p == CHOOSE q \in pair : TRUE
                  IN  SubcommandLoop(cf, p.value, group, name, prefix,
                                     Tail(src), Tail(src), gs,
                                     cs \cup {p.id})
             ELSE Resolved(command.function, group.id, command.id, name,
                           prefix, args, gs, cs)

\* The owning group: the group descended into if it lists the command, else
\* the first top-level group that lists it.  A set: empty when the lookup
\* among the top-level groups finds none (the expect panics).
OwningTopLevel(cf, command) ==
    LET idx == {i \in 1..Len(cf.top_level_groups) :
                    command.id \in cf.top_level_groups[i].commands}
    IN  IF idx = {} THEN {}
        ELSE {cf.top_level_groups[CHOOSE i \in idx : \A j \in idx : i <= j]}

\* The command lookup with the owner sought among the top-level groups
\* only, whatever group was descended into.
ResolveCommandTopLevelOnly(cf, name, group, prefix, src, gs) ==
    LET found == get_by_name(cf.commands, name)
    IN  IF found = {}
        THEN DispatchError("InvalidCommandName", name, NoId, gs, {})
        ELSE LET command == CHOOSE c \in found : TRUE
                 top == OwningTopLevel(cf, command)
             IN  IF top = {}
                 THEN Panicked(gs, {})
                 ELSE SubcommandLoop(cf, command, CHOOSE t \in top : TRUE,
                                     name, prefix, src, src, gs,
                                     {command.id})

\* The command lookup taking the group descended into as the owner without
\* the test that it lists the command.
ResolveCommandGroupUnchecked(cf, name, group, prefix, src, gs) ==
    LET found == get_by_name(cf.commands, name)
    IN  IF found = {}
        THEN DispatchError("InvalidCommandName", name, NoId, gs, {})
        ELSE LET command == CHOOSE c \in found : TRUE
             IN  IF group # {}
                 THEN SubcommandLoop(cf, command, CHOOSE x \in group : TRUE,
                                     name, prefix, src, src, gs, {command.id})
                 ELSE LET top == OwningTopLevel(cf, command)
                      IN  IF top = {}
                          THEN Panicked(gs, {})
                          ELSE SubcommandLoop(cf, command,
                                              CHOOSE t \in top : TRUE, name,
                                              prefix, src, src, gs,
                                              {command.id})

\* The command lookup and the owning group's check.
ResolveCommand(cf, name, group, prefix, src, gs) ==
    LET found == get_by_name(cf.commands, name)
    IN  IF found = {}
        THEN DispatchError("InvalidCommandName", name, NoId, gs, {})
        ELSE LET command == CHOOSE c \in found : TRUE
             IN  IF group # {}
                 THEN LET g == CHOOSE x \in group : TRUE
                      IN  IF command.id \in g.commands
                          THEN SubcommandLoop(cf, command, g, name, prefix,
                                              src, src, gs, {command.id})
                          ELSE DispatchError("InvalidCommand", g.id,
                                             command.id, gs, {})
                 ELSE LET top == OwningTopLevel(cf, command)
                      IN  IF top = {}
                          THEN Panicked(gs, {})
                          ELSE SubcommandLoop(cf, command,
                                              CHOOSE t \in top : TRUE, name,
                                              prefix, src, src, gs,
                                              {command.id})

RECURSIVE GroupLoopCommandFirst(_, _, _, _, _)
\* A group loop that takes the name for a command of the group when it is
\* one, before it looks for a subgroup.
GroupLoopCommandFirst(cf, g, prefix, src, gs) ==
    IF src = <<>>
    THEN IF g.default_command # NoId
         THEN IF contains_id(cf.commands, g.default_command)
              THEN LET command == cf.commands.items[g.default_command]
                   IN  Resolved(command.function, g.id, command.id,
                                command.names[1], prefix, <<>>, gs,
                                {command.id})
              ELSE Panicked(gs, {})
         ELSE DispatchError("MissingContent", NoId, NoId, gs, {})
    ELSE LET name == Segment(cf, Head(src))
             pair == get_pair(cf.groups, name)
         IN  IF \E c \in get_by_name(cf.commands, name) : c.id \in g.commands
             THEN ResolveCommand(cf, name, {g}, prefix, Tail(src), gs)
             ELSE IF \E p \in pair : p.id \in cf.blocked_entities.groups
             THEN CHOOSE e \in {DispatchError("BlockedGroup", p.id, NoId,
                                              gs, {}) : p \in pair} : TRUE
             ELSE IF \E p \in pair : p.id \in g.subgroups
             THEN LET p == CHOOSE q \in pair : TRUE
                  IN  GroupLoopCommandFirst(cf, p.value, prefix, Tail(src),
                                            gs \cup {p.id})
             ELSE ResolveCommand(cf, name, {g}, prefix, Tail(src), gs)

RECURSIVE GroupLoop(_, _, _, _, _)
\* The group loop (while let Some(g) = group), then the command lookup.
GroupLoop(cf, g, prefix, src, gs) ==
    IF src = <<>>
    THEN IF g.default_command # NoId
         THEN IF contains_id(cf.commands, g.default_command)
              THEN LET command == cf.commands.items[g.default_command]
                   IN  Resolved(command.function, g.id, command.id,
                                command.names[1], prefix, <<>>, gs,
                                {command.id})
              ELSE Panicked(gs, {})
         ELSE DispatchError("MissingContent", NoId, NoId, gs, {})
    ELSE LET name == Segment(cf, Head(src))
             pair == get_pair(cf.groups, name)
         IN  IF \E p \in pair : p.id \in cf.blocked_entities.groups
             THEN CHOOSE e \in {DispatchError("BlockedGroup", p.id, NoId,
                                              gs, {}) : p \in pair} : TRUE
             ELSE IF \E p \in pair : p.id \in g.subgroups
             THEN LET p == CHOOSE q \in pair : TRUE
                  IN  GroupLoop(cf, p.value, prefix, Tail(src),
                                gs \cup {p.id})
             ELSE ResolveCommand(cf, name, {g}, prefix, Tail(src), gs)

\* The resolution block after the checks on the sender: the prefix, the
\* group loop and the command lookup.
ResolveContent(cf, msg) ==
    IF content(cf, msg) = {}
    THEN DispatchError("NormalMessage", NoId, NoId, {}, {})
    ELSE LET pc == CHOOSE x \in content(cf, msg) : TRUE
         IN  IF pc.content = <<>>
             THEN DispatchError("PrefixOnly", NoId, NoId, {}, {})
             ELSE LET name == Segment(cf, Head(pc.content))
                      group == get_by_name(cf.groups, name)
                  IN  IF group = {}
                      THEN ResolveCommand(cf, name, {}, pc.prefix,
                                          Tail(pc.content), {})
                      ELSE LET g == CHOOSE x \in group : TRUE
                           IN  GroupLoop(cf, g, pc.prefix, Tail(pc.content),
                                         {g.id})

\* A resolution block that seeks the prefix before it checks the sender.
ResolvePrefixFirst(cf, msg) ==
    IF content(cf, msg) = {}
    THEN DispatchError("NormalMessage", NoId, NoId, {}, {})
    ELSE IF BlockedSender(cf, msg) # {}
    THEN CHOOSE e \in BlockedSender(cf, msg) : TRUE
    ELSE ResolveContent(cf, msg)

\* The resolution block of dispatch_with_hook ('block).
Resolve(cf, msg) ==
    IF BlockedSender(cf, msg) # {}
    THEN CHOOSE e \in BlockedSender(cf, msg) : TRUE
    ELSE ResolveContent(cf, msg)

\* The end of dispatch_with_hook on a resolved target r: the hook runs once
\* and its error, if any, is wrapped in Error::User.  hook_result is what
\* the hook (the command function) returns: "ok" or an error value.
\* hook_returned records what the hook returned, "none" when it did not run.
HookReturnSwallowed(msg, r, hook_result) ==
    [msg |-> msg, kind |-> "Ok", err |-> r.err, user_err |-> "",
     hooked |-> 1, hook_returned |-> hook_result, ctx |-> r.target]

HookReturn(msg, r, hook_result) ==
    [msg |-> msg,
     kind |-> IF hook_result = "ok" THEN "Ok" ELSE "User",
     err |-> r.err,
     user_err |-> IF hook_result = "ok" THEN "" ELSE hook_result,
     hooked |-> 1,
     hook_returned |-> hook_result,
     ctx |-> r.target]

\* The early returns of dispatch_with_hook (and a panic): no hook call.
EarlyReturn(msg, r) ==
    [msg |-> msg, kind |-> r.kind, err |-> r.err, user_err |-> "",
     hooked |-> 0, hook_returned |-> "none", ctx |-> NoTarget]

(***************************************************************************)
(* command_attr: validate_arguments_order.  An argument is its kind; the   *)
(* result is Ok, or the error with the position of the second argument of  *)
(* the pair that raised it, the position its span points to and its        *)
(* message.                                                                *)
(***************************************************************************)
ArgumentType == {"Required", "Optional", "Variadic", "Rest"}

NotValidated == [ok |-> FALSE, at |-> 0, span |-> 0, msg |-> "not validated"]

Ok == [ok |-> TRUE, at |-> 0, span |-> 0, msg |-> ""]

\* The match without the arms that keep Variadic and Rest apart.
MatchKindsAllowingBoth(last_kind, kind) ==
    CASE last_kind = "Optional" /\ kind = "Required" ->
            [msg |-> "optional argument cannot precede a required argument",
             span |-> "last"]
      [] last_kind = "Variadic" /\ kind = "Required" ->
            [msg |-> "variadic argument cannot precede a required argument",
             span |-> "last"]
      [] last_kind = "Variadic" /\ kind = "Optional" ->
            [msg |-> "variadic argument cannot precede an optional argument",
             span |-> "last"]
      [] last_kind = "Rest" /\ kind = "Required" ->
            [msg |-> "rest argument cannot precede a required argument",
             span |-> "last"]
      [] last_kind = "Rest" /\ kind = "Optional" ->
            [msg |-> "rest argument cannot precede an optional argument",
             span |-> "last"]
      [] last_kind = "Variadic" /\ kind = "Variadic" ->
            [msg |-> "a command cannot have two variadic argument parameters",
             span |-> "arg"]
      [] last_kind = "Rest" /\ kind = "Rest" ->
            [msg |-> "a command cannot have two rest argument parameters",
             span |-> "arg"]
      [] OTHER -> [msg |-> "", span |-> ""]

\* The match on (last_arg.kind, arg.kind): the error of the arm taken, or
\* an empty message for the arms that accept the pair.
MatchKinds(last_kind, kind) ==
    CASE last_kind = "Optional" /\ kind = "Required" ->
            [msg |-> "optional argument cannot precede a required argument",
             span |-> "last"]
      [] last_kind = "Variadic" /\ kind = "Required" ->
            [msg |-> "variadic argument cannot precede a required argument",
             span |-> "last"]
      [] last_kind = "Variadic" /\ kind = "Optional" ->
            [msg |-> "variadic argument cannot precede an optional argument",
             span |-> "last"]
      [] last_kind = "Rest" /\ kind = "Required" ->
            [msg |-> "rest argument cannot precede a required argument",
             span |-> "last"]
      [] last_kind = "Rest" /\ kind = "Optional" ->
            [msg |-> "rest argument cannot precede an optional argument",
             span |-> "last"]
      [] last_kind = "Rest" /\ kind = "Variadic" ->
            [msg |-> "a rest argument cannot be used alongside a variadic argument",
             span |-> "last"]
      [] last_kind = "Variadic" /\ kind = "Rest" ->
            [msg |-> "a variadic argument cannot be used alongside a rest argument",
             span |-> "last"]
      [] last_kind = "Variadic" /\ kind = "Variadic" ->
            [msg |-> "a command cannot have two variadic argument parameters",
             span |-> "arg"]
      [] last_kind = "Rest" /\ kind = "Rest" ->
            [msg |-> "a command cannot have two rest argument parameters",
             span |-> "arg"]
      [] OTHER -> [msg |-> "", span |-> ""]

RECURSIVE ValidateFrom(_, _)
\* The loop of validate_arguments_order from the i-th argument on, last_arg
\* being the one before it.
ValidateFrom(args, i) ==
    IF i > Len(args) THEN Ok
    ELSE IF i = 1 THEN ValidateFrom(args, 2)
    ELSE LET e == MatchKinds(args[i - 1], args[i])
         IN  IF e.msg # ""
             THEN [ok |-> FALSE, at |-> i,
                   span |-> IF e.span = "last" THEN i - 1 ELSE i,
                   msg |-> e.msg]
             ELSE ValidateFrom(args, i + 1)

validate_arguments_order(args) == ValidateFrom(args, 1)

(***************************************************************************)
(* The state machine.  conf is the Configuration behind Framework::conf;   *)
(* phase is "running" until a registration panics; ncalls counts the       *)
(* configuration calls made; last names the latest configuration call and  *)
(* out holds the result of a dispatch until its caller has taken it; roots *)
(* are the groups that completed calls of Configuration::group were given. *)
(* attr is the #[command] attribute at work on a function: the kinds of    *)
(* the function's arguments and the result of validating their order.      *)
(* lock and task are the configuration mutex and the tasks that share the  *)
(* Framework; data is the user data behind Framework::data.  walk is the   *)
(* registration call under way when its recursion is followed call by call.*)
(***************************************************************************)
NoMessage == [author |-> NoId, channel_id |-> NoId, guild_id |-> {},
              prefix |-> "", tokens |-> <<>>]

NoOut == [msg |-> NoMessage, kind |-> "none", err |-> NoError,
          user_err |-> "", hooked |-> 0, hook_returned |-> "none",
          ctx |-> NoTarget]

HookResults == {"ok", "e1"}

RECURSIVE SeqsUpTo(_, _)
\* The sequences over S of length at most n.
SeqsUpTo(S, n) ==
    IF n = 0 THEN {<<>>}
    ELSE LET shorter == SeqsUpTo(S, n - 1)
         IN  shorter \cup {Append(t, x) : t \in shorter, x \in S}

\* Messages of a sender no blocklist of the model names: with the prefix,
\* and (never tokenized) without it.  The upper-case token occurs in the
\* messages of one and two tokens.
Messages ==
    [author : {"u2"}, channel_id : {"ch2"}, guild_id : {{}},
     prefix : {"!"},
     tokens : SeqsUpTo(Tokens, 2) \cup SeqsUpTo(Tokens \ {"A"}, MaxTokens)]
    \cup [author : {"u2"}, channel_id : {"ch2"}, guild_id : {{}},
          prefix : {"?"}, tokens : SeqsUpTo(Tokens, 1)]

\* Messages of every sender, over two tokens.
SenderMessages ==
    [author : UserIds, channel_id : ChannelIds,
     guild_id : {{}} \cup {{g} : g \in GuildIds},
     prefix : {"!"}, tokens : SeqsUpTo({"g", "a"}, MaxTokens)]
    \cup [author : UserIds, channel_id : ChannelIds,
          guild_id : {{}} \cup {{g} : g \in GuildIds},
          prefix : {"?"}, tokens : SeqsUpTo({"g", "a"}, 1)]

\* The tasks that call dispatch_with_hook on the shared Framework, and the
\* task that rewrites the configuration at run time.
\* D::default(): the user data behind Framework::data.
DataDefault == "default"

Tasks == {"t1", "t2"}
Writer == "w"
Procs == Tasks \cup {Writer}

\* A task outside dispatch_with_hook: pc is its position, msg the message
\* it dispatches, seen the configuration its first read saw, res what the
\* resolution block ended in and r what dispatch_with_hook returned.
NoResolution == DispatchError("", NoId, NoId, {}, {})

IdleTask == [pc |-> "idle", msg |-> NoMessage, seen |-> NoId,
             res |-> NoResolution, r |-> NoOut]

\* No function is being expanded.
NoAttr == [arguments |-> <<>>, result |-> NotValidated]

\* Every constructor of the application.
WalkIds == CommandIds \cup CyclicCommandIds \cup GroupIds \cup CyclicGroupIds

\* No registration call is under way.  st is "idle", "walking" inside a
\* call, or how the call ended: "completed", "panicked" (an assert!) or
\* "overflow" (the recursion exhausted the stack); root is the constructor
\* the call was given, stack the frames of Configuration::command and
\* Configuration::_group that are active, each with the ids its loops have
\* still to visit, and runs counts the constructor calls the walk made.
NoWalk == [st |-> "idle", op |-> "new", root |-> NoId, stack |-> <<>>,
           runs |-> [x \in WalkIds |-> 0]]

\* The application configured the prefix "!" before anything else.
Init ==
    /\ conf = ConfPrefix(ConfigurationDefault, "!")
    /\ phase = "running"
    /\ ncalls = 0
    /\ last = [op |-> "new", arg |-> NoId]
    /\ out = NoOut
    /\ attr = NoAttr
    /\ lock = NoId
    /\ task = [p \in Procs |-> IdleTask]
    /\ data = DataDefault
    /\ roots = {}
    /\ walk = NoWalk

Called(op, arg) ==
    /\ ncalls' = ncalls + 1
    /\ last' = [op |-> op, arg |-> arg]
    /\ out' = NoOut
    /\ roots' = IF op = "group" /\ phase' = "running"
                THEN roots \cup {arg} ELSE roots
    /\ UNCHANGED <<attr, lock, task, data, walk>>

CanCall == phase = "running" /\ ncalls < MaxCalls /\ out = NoOut

\* conf.command(c)
ConfCommand(c) ==
    /\ CanCall
    /\ \E o \in Command(conf, c) :
          /\ conf' = o.conf
          /\ phase' = IF o.st = "ok" THEN "running" ELSE "aborted"
    /\ Called("command", c)

\* conf.group(g)
ConfGroup(g) ==
    /\ CanCall
    /\ \E o \in Group(conf, g) :
          /\ conf' = o.conf
          /\ phase' = IF o.st = "ok" THEN "running" ELSE "aborted"
    /\ Called("group", g)

\* conf.case_insensitive(b)
ConfCaseInsensitive(b) ==
    /\ CanCall
    /\ conf' = [conf EXCEPT !.case_insensitive = b]
    /\ Called("case_insensitive", NoId)
    /\ UNCHANGED phase

\* conf.blocked_commands(ids)
ConfBlockedCommands(ids) ==
    /\ CanCall
    /\ conf' = [conf EXCEPT !.blocked_entities.commands = ids]
    /\ Called("blocked_commands", NoId)
    /\ UNCHANGED phase

\* conf.blocked_groups(ids)
ConfBlockedGroups(ids) ==
    /\ CanCall
    /\ conf' = [conf EXCEPT !.blocked_entities.groups = ids]
    /\ Called("blocked_groups", NoId)
    /\ UNCHANGED phase

\* conf.blocked_users(ids)
ConfBlockedUsers(ids) ==
    /\ CanCall
    /\ conf' = [conf EXCEPT !.blocked_entities.users = ids]
    /\ Called("blocked_users", NoId)
    /\ UNCHANGED phase

\* conf.blocked_channels(ids)
ConfBlockedChannels(ids) ==
    /\ CanCall
    /\ conf' = [conf EXCEPT !.blocked_entities.channels = ids]
    /\ Called("blocked_channels", NoId)
    /\ UNCHANGED phase

\* conf.blocked_guilds(ids)
ConfBlockedGuilds(ids) ==
    /\ CanCall
    /\ conf' = [conf EXCEPT !.blocked_entities.guilds = ids]
    /\ Called("blocked_guilds", NoId)
    /\ UNCHANGED phase

\* framework.dispatch_with_hook(ctx, msg, hook)
Dispatch(msg) ==
    /\ phase = "running"
    /\ out = NoOut
    /\ LET r == Resolve(conf, msg)
       IN  IF r.kind = "Target"
           THEN \E h \in HookResults : out' = HookReturn(msg, r, h)
           ELSE out' = EarlyReturn(msg, r)
    /\ UNCHANGED <<conf, phase, ncalls, last, attr, lock, task, data, roots, walk>>

\* The caller of dispatch_with_hook takes the result.
Returned ==
    /\ out # NoOut
    /\ out' = NoOut
    /\ UNCHANGED <<conf, phase, ncalls, last, attr, lock, task, data, roots, walk>>

\* Assembly of commands and groups, and dispatch of messages whose sender
\* is not blocked.
Next ==
    \/ \E c \in CoreCommandIds : ConfCommand(c)
    \/ \E g \in CoreGroupIds : ConfGroup(g)
    \/ ConfCaseInsensitive(TRUE)
    \/ \E ids \in {{"cA"}, {"cB"}} : ConfBlockedCommands(ids)
    \/ \E ids \in {{"gG"}, {"gH"}} : ConfBlockedGroups(ids)
    \/ \E m \in Messages : Dispatch(m)
    \/ Returned

Spec == Init /\ [][Next]_vars

\* Blocklists of users, channels and guilds, and dispatch of messages of
\* every sender.
NextSender ==
    \/ \E c \in {"cA"} : ConfCommand(c)
    \/ \E g \in {"gG", "gT"} : ConfGroup(g)
    \/ \E ids \in {{"u1"}} : ConfBlockedUsers(ids)
    \/ \E ids \in {{"ch1"}} : ConfBlockedChannels(ids)
    \/ \E ids \in {{"gu1"}} : ConfBlockedGuilds(ids)
    \/ \E m \in SenderMessages : Dispatch(m)
    \/ Returned

SpecSender == Init /\ [][NextSender]_vars

\* Assembly alone: every constructor of the application, in any order, and
\* either case folding.
NextAssembly ==
    \/ \E c \in CommandIds : ConfCommand(c)
    \/ \E g \in GroupIds : ConfGroup(g)
    \/ \E b \in BOOLEAN : ConfCaseInsensitive(b)

SpecAssembly == Init /\ [][NextAssembly]_vars

\* The #[command] attribute on a function with any argument kinds.
InitArguments ==
    /\ conf = ConfPrefix(ConfigurationDefault, "!")
    /\ phase = "running"
    /\ ncalls = 0
    /\ last = [op |-> "new", arg |-> NoId]
    /\ out = NoOut
    /\ attr \in [arguments : SeqsUpTo(ArgumentType, MaxArgs),
                 result : {NotValidated}]
    /\ lock = NoId
    /\ task = [p \in Procs |-> IdleTask]
    /\ data = DataDefault
    /\ roots = {}
    /\ walk = NoWalk

\* inject_argument_parsing_code: validate_arguments_order(&arguments)
ValidateArgumentsOrder ==
    /\ attr.result = NotValidated
    /\ attr' = [attr EXCEPT !.result = validate_arguments_order(attr.arguments)]
    /\ UNCHANGED <<conf, phase, ncalls, last, out, lock, task, data, roots, walk>>

SpecArguments == InitArguments /\ [][ValidateArgumentsOrder]_vars

\* Messages that spell the name "Foo" in three ways.
CaseMessages ==
    [author : {"u2"}, channel_id : {"ch2"}, guild_id : {{}}, prefix : {"!"},
     tokens : SeqsUpTo({"foo", "FOO", "Foo"}, MaxCaseTokens)]

\* The group gFoo and its command cFoo, both named "Foo", registered before
\* or after case-insensitivity is set, and dispatch of the spellings.
NextCase ==
    \/ \E b \in BOOLEAN : ConfCaseInsensitive(b)
    \/ \E c \in {"cFoo"} : ConfCommand(c)
    \/ \E g \in {"gFoo"} : ConfGroup(g)
    \/ \E m \in CaseMessages : Dispatch(m)
    \/ Returned

SpecCase == Init /\ [][NextCase]_vars

(***************************************************************************)
(* Concurrent dispatches on one Framework.  Framework::conf is an          *)
(* Arc<Mutex<Configuration>>: lock is the task that holds the mutex.  A    *)
(* task's dispatch_with_hook goes through the positions                    *)
(*   "lock"      at self.conf.lock().await                                 *)
(*   "check"     holding the guard, before the checks on the sender        *)
(*   "resolve"   holding the guard, before parse::content                  *)
(*   "content"   holding the guard, suspended in parse::content(..).await  *)
(*   "extracted" past the 'block, the guard dropped                        *)
(*   "hook"      the hook (the command function) running                   *)
(*   "done"      returned (or unwound)                                     *)
(***************************************************************************)
\* A lock() that completes whoever holds the mutex.
MutexLockBarging(h) == lock' = h

\* Mutex::lock().await completes when nobody holds the mutex.
MutexLock(h) == lock = NoId /\ lock' = h

\* A guard that outlives the 'block.
GuardKeptAtBreak(h) == lock' = lock

\* break 'block (..): the guard conf, a local of the loop body, goes out of
\* scope.
GuardDroppedAtBreak(h) == lock' = NoId

ConcurrentMessages ==
    [author : {"u1"}, channel_id : {"ch1"}, guild_id : {{}}, prefix : {"!"},
     tokens : {<<"g", "a">>, <<"g">>, <<"a">>}]

\* A task calls dispatch_with_hook(ctx, msg, hook).
DispatchCall(p, msg) ==
    /\ task[p].pc = "idle"
    /\ task' = [task EXCEPT ![p] = [IdleTask EXCEPT !.pc = "lock",
                                                     !.msg = msg]]
    /\ UNCHANGED <<conf, phase, ncalls, last, out, attr, lock, data, roots, walk>>

\* let conf = self.conf.lock().await
DispatchLock(p) ==
    /\ task[p].pc = "lock"
    /\ MutexLock(p)
    /\ task' = [task EXCEPT ![p].pc = "check"]
    /\ UNCHANGED <<conf, phase, ncalls, last, out, attr, data, roots, walk>>

\* The checks on the author, the channel and the guild.
DispatchCheckSender(p) ==
    /\ task[p].pc = "check"
    /\ LET e == BlockedSender(conf, task[p].msg)
       IN  IF e # {}
           THEN /\ task' = [task EXCEPT
                        ![p].pc = "done", ![p].seen = conf,
                        ![p].res = CHOOSE x \in e : TRUE,
                        ![p].r = EarlyReturn(task[p].msg,
                                             CHOOSE x \in e : TRUE)]
                /\ lock' = NoId
           ELSE /\ task' = [task EXCEPT ![p].pc = "resolve",
                                        ![p].seen = conf]
                /\ UNCHANGED lock
    /\ UNCHANGED <<conf, phase, ncalls, last, out, attr, data, roots, walk>>

\* A guard released while the task is suspended.
GuardReleasedAtAwait(h) == lock' = NoId

\* parse::content(prefix_ctx, &msg).await: prefix_ctx borrows the guard conf,
\* which lives on across the suspension.
GuardHeldAcrossAwait(h) == lock' = lock

\* The task calls parse::content and is suspended in it (in the dynamic
\* prefix callback).
DispatchContent(p) ==
    /\ task[p].pc = "resolve"
    /\ task' = [task EXCEPT ![p].pc = "content"]
    /\ GuardHeldAcrossAwait(p)
    /\ UNCHANGED <<conf, phase, ncalls, last, out, attr, data, roots, walk>>

\* parse::content returns; the group loop, the command lookup and the
\* subcommand loop, to the break out of the 'block or to an early return.
DispatchResolve(p) ==
    /\ task[p].pc = "content"
    /\ LET res == ResolveContent(conf, task[p].msg)
       IN  IF res.kind = "Target"
           THEN /\ task' = [task EXCEPT ![p].pc = "extracted",
                                        ![p].res = res]
                /\ GuardDroppedAtBreak(p)
           ELSE /\ task' = [task EXCEPT
                        ![p].pc = "done", ![p].res = res,
                        ![p].r = EarlyReturn(task[p].msg, res)]
                /\ lock' = NoId
    /\ UNCHANGED <<conf, phase, ncalls, last, out, attr, data, roots, walk>>

\* The call of the hook with the user data written on the way.
DispatchHookWritingData(p) ==
    /\ task[p].pc = "extracted"
    /\ task' = [task EXCEPT ![p].pc = "hook"]
    /\ data' = "written"
    /\ UNCHANGED <<conf, phase, ncalls, last, out, attr, lock, roots, walk>>

\* let ctx = Context { .. }; hook(ctx, msg, func): the command function
\* starts.
DispatchHook(p) ==
    /\ task[p].pc = "extracted"
    /\ task' = [task EXCEPT ![p].pc = "hook"]
    /\ UNCHANGED <<conf, phase, ncalls, last, out, attr, lock, data, roots, walk>>

\* .await.map_err(Error::User): the command function, which may have
\* written the user data through ctx.data, returns.
DispatchHookReturn(p, hook_result) ==
    /\ task[p].pc = "hook"
    /\ task' = [task EXCEPT
            ![p].pc = "done",
            ![p].r = HookReturn(task[p].msg, task[p].res, hook_result)]
    /\ data' \in {data, "written"}
    /\ UNCHANGED <<conf, phase, ncalls, last, out, attr, lock, roots, walk>>

\* The caller takes the result.
DispatchDone(p) ==
    /\ task[p].pc = "done"
    /\ task' = [task EXCEPT ![p] = IdleTask]
    /\ UNCHANGED <<conf, phase, ncalls, last, out, attr, lock, data, roots, walk>>

\* The writer: framework.conf.lock().await
WriterLock ==
    /\ task[Writer].pc = "idle"
    /\ ncalls < MaxCalls
    /\ MutexLock(Writer)
    /\ task' = [task EXCEPT ![Writer].pc = "locked"]
    /\ UNCHANGED <<conf, phase, ncalls, last, out, attr, data, roots, walk>>

\* The writer, through its guard: conf.blocked_users(ids)
WriterBlockedUsers(ids) ==
    /\ task[Writer].pc = "locked"
    /\ conf' = [conf EXCEPT !.blocked_entities.users = ids]
    /\ ncalls' = ncalls + 1
    /\ task' = [task EXCEPT ![Writer].pc = "written"]
    /\ UNCHANGED <<phase, last, out, attr, lock, data, roots, walk>>

\* The writer, through its guard: conf.blocked_groups(ids)
WriterBlockedGroups(ids) ==
    /\ task[Writer].pc = "locked"
    /\ conf' = [conf EXCEPT !.blocked_entities.groups = ids]
    /\ ncalls' = ncalls + 1
    /\ task' = [task EXCEPT ![Writer].pc = "written"]
    /\ UNCHANGED <<phase, last, out, attr, lock, data, roots, walk>>

\* The writer drops its guard.
WriterUnlock ==
    /\ task[Writer].pc = "written"
    /\ lock' = NoId
    /\ task' = [task EXCEPT ![Writer].pc = "idle"]
    /\ UNCHANGED <<conf, phase, ncalls, last, out, attr, data, roots, walk>>

\* The Framework is built over a configuration with group gG registered.
InitConcurrent ==
    /\ conf \in {o.conf : o \in Group(ConfPrefix(ConfigurationDefault, "!"),
                                      "gG")}
    /\ phase = "running"
    /\ ncalls = 0
    /\ last = [op |-> "group", arg |-> "gG"]
    /\ out = NoOut
    /\ attr = NoAttr
    /\ lock = NoId
    /\ task = [p \in Procs |-> IdleTask]
    /\ data = DataDefault
    /\ roots = {"gG"}
    /\ walk = NoWalk

NextConcurrent ==
    \/ \E p \in Tasks :
          \/ \E m \in ConcurrentMessages : DispatchCall(p, m)
          \/ DispatchLock(p)
          \/ DispatchCheckSender(p)
          \/ DispatchContent(p)
          \/ DispatchResolve(p)
          \/ DispatchHook(p)
          \/ \E h \in HookResults : DispatchHookReturn(p, h)
          \/ DispatchDone(p)
    \/ WriterLock
    \/ \E ids \in {{}, {"u1"}} : WriterBlockedUsers(ids)
    \/ \E ids \in {{"gH"}} : WriterBlockedGroups(ids)
    \/ WriterUnlock

SpecConcurrent == InitConcurrent /\ [][NextConcurrent]_vars

\* The same tasks under a scheduler that runs every task that can run, a
\* mutex that serves every waiter (lock() is fair), a prefix callback and a
\* hook that return, and a writer that drops its guard.
FairConcurrent ==
    /\ \A p \in Tasks :
          /\ SF_vars(DispatchLock(p))
          /\ WF_vars(DispatchCheckSender(p))
          /\ WF_vars(DispatchContent(p))
          /\ WF_vars(DispatchResolve(p))
          /\ WF_vars(DispatchHook(p))
          /\ WF_vars(\E h \in HookResults : DispatchHookReturn(p, h))
    /\ WF_vars(\E ids \in {{}, {"u1"}} : WriterBlockedUsers(ids))
    /\ WF_vars(WriterUnlock)

SpecConcurrentFair ==
    InitConcurrent /\ [][NextConcurrent]_vars /\ FairConcurrent

(***************************************************************************)
(* The registration walk, call by call.  Configuration::command calls      *)
(* itself for every subcommand and Configuration::_group calls itself for  *)
(* every subgroup and Configuration::command for every command; each call  *)
(* is a frame on the stack of the thread, which holds MaxDepth of them.    *)
(***************************************************************************)
RECURSIVE GroupBuildsWithin(_, _)
\* The call of group g's constructor with room for d frames: it calls the
\* constructor of every subgroup (GroupBuilder::subgroup, GroupMap::add),
\* and ends "ok", in a "panic" of GroupMap::add's assert, or in an
\* "overflow" of the stack.  The set of the ways it can end.
GroupBuildsWithin(g, d) ==
    IF d = 0 THEN {"overflow"}
    ELSE LET below(x) == GroupBuildsWithin(x, d - 1)
             fails == UNION {(below(x) \ {"ok"}) \cup
                                (IF GroupConstructor(x).prefixes = <<>>
                                 THEN {"panic"} ELSE {})
                             : x \in GroupConstructor(g).subgroups}
         IN  IF fails = {} THEN {"ok"} ELSE fails

Top == walk.stack[Len(walk.stack)]

\* A call of Configuration::command for c from the walk w: the constructor
\* runs, the names are bound and the loop over the subcommands is to come.
EnterCommand(w, c) ==
    LET id == CommandIdFrom(c)
        command == [CommandConstructor(c) EXCEPT !.id = id]
    IN  IF Len(w.stack) >= MaxDepth
        THEN /\ walk' = [w EXCEPT !.st = "overflow"]
             /\ UNCHANGED conf
        ELSE IF command.names = <<>>
        THEN /\ walk' = [w EXCEPT !.st = "panicked", !.runs[c] = @ + 1]
             /\ UNCHANGED conf
        ELSE /\ conf' = CommandNames(conf, command.names, 1, id)
             /\ walk' = [w EXCEPT
                    !.st = "walking", !.runs[c] = @ + 1,
                    !.stack = Append(@, [kind |-> "command", id |-> id,
                                         value |-> command,
                                         subgroups |-> {},
                                         commands |-> command.subcommands])]

\* A call of Configuration::_group from the walk w for the group that
\* constructor g built: the prefixes are bound and the loops over the
\* subgroups and the commands are to come.
EnterGroup(w, g) ==
    LET group == [GroupConstructor(g) EXCEPT !.id = GroupIdFrom(g)]
    IN  IF Len(w.stack) >= MaxDepth
        THEN /\ walk' = [w EXCEPT !.st = "overflow"]
             /\ UNCHANGED conf
        ELSE /\ conf' = GroupPrefixes(conf, group.prefixes, 1, group.id)
             /\ walk' = [w EXCEPT
                    !.st = "walking",
                    !.stack = Append(@, [kind |-> "group", id |-> group.id,
                                         value |-> group,
                                         subgroups |-> group.subgroups,
                                         commands |-> group.commands])]

\* The call constructor() of group g with the stack as deep as it is in w,
\* then what follows it when the constructor returns.
CallGroupConstructor(w, g, then) ==
    \E b \in GroupBuildsWithin(g, MaxDepth - Len(w.stack)) :
        IF b = "ok" THEN then
        ELSE /\ walk' = [w EXCEPT
                    !.st = IF b = "panic" THEN "panicked" ELSE "overflow"]
             /\ UNCHANGED conf

\* conf.command(c) is called.
WalkCommand(c) ==
    /\ CanCall
    /\ walk.st = "idle"
    /\ EnterCommand([walk EXCEPT !.op = "command", !.root = c], c)
    /\ UNCHANGED <<phase, ncalls, last, out, attr, lock, task, data, roots>>

\* conf.group(g) is called: the constructor runs; a group without prefixes
\* is pushed onto top_level_groups and the call is over, any other goes
\* through _group.
WalkGroup(g) ==
    /\ CanCall
    /\ walk.st = "idle"
    /\ LET w == [walk EXCEPT !.op = "group", !.root = g,
                             !.runs[g] = @ + 1]
           group == [GroupConstructor(g) EXCEPT !.id = GroupIdFrom(g)]
       IN  CallGroupConstructor(w, g,
              IF group.prefixes = <<>>
              THEN IF group.subgroups # {}
                   THEN /\ walk' = [w EXCEPT !.st = "panicked"]
                        /\ UNCHANGED conf
                   ELSE /\ walk' = [w EXCEPT !.st = "completed"]
                        /\ conf' = [conf EXCEPT
                               !.top_level_groups = Append(@, group)]
              ELSE EnterGroup(w, g))
    /\ UNCHANGED <<phase, ncalls, last, out, attr, lock, task, data, roots>>

\* _group, the loop over group.subgroups: the next id, in any order; its
\* constructor runs and _group is called for what it built.
WalkSubgroup ==
    /\ walk.st = "walking"
    /\ Top.kind = "group"
    /\ \E x \in Top.subgroups :
          LET w == [walk EXCEPT
                      !.stack[Len(walk.stack)].subgroups = @ \ {x},
                      !.runs[x] = @ + 1]
          IN  CallGroupConstructor(w, x, EnterGroup(w, x))
    /\ UNCHANGED <<phase, ncalls, last, out, attr, lock, task, data, roots>>

\* The loop over command.subcommands, or _group's loop over group.commands
\* once its subgroups are done: the next id, in any order, is handed to
\* Configuration::command.
WalkSubcommand ==
    /\ walk.st = "walking"
    /\ Top.subgroups = {}
    /\ \E x \in Top.commands :
          EnterCommand([walk EXCEPT
                          !.stack[Len(walk.stack)].commands = @ \ {x}], x)
    /\ UNCHANGED <<phase, ncalls, last, out, attr, lock, task, data, roots>>

\* The loops of the innermost call are done: the value is inserted under
\* its id and the call returns to its caller.
WalkReturn ==
    /\ walk.st = "walking"
    /\ Top.subgroups = {} /\ Top.commands = {}
    /\ conf' = IF Top.kind = "command"
               THEN CommandStore(conf, Top.id, Top.value)
               ELSE [conf EXCEPT !.groups = insert(@, Top.id, Top.value)]
    /\ walk' = [walk EXCEPT
           !.stack = SubSeq(@, 1, Len(@) - 1),
           !.st = IF Len(walk.stack) = 1 THEN "completed" ELSE "walking"]
    /\ UNCHANGED <<phase, ncalls, last, out, attr, lock, task, data, roots>>

\* The registration call is over: it returned, or it took the process down.
WalkOver ==
    /\ walk.st \in {"completed", "panicked", "overflow"}
    /\ phase' = IF walk.st = "completed" THEN "running" ELSE "aborted"
    /\ ncalls' = ncalls + 1
    /\ last' = [op |-> walk.op, arg |-> walk.root]
    /\ roots' = IF walk.op = "group" /\ walk.st = "completed"
                THEN roots \cup {walk.root} ELSE roots
    /\ walk' = NoWalk
    /\ UNCHANGED <<conf, out, attr, lock, task, data>>

\* Registration calls, acyclic and cyclic, one step of the walk at a time.
NextWalk ==
    \/ \E c \in {"cA", "cD", "cE", "cSelf", "cPing"} : WalkCommand(c)
    \/ \E g \in {"gG", "gBad", "gLoop", "gZ"} : WalkGroup(g)
    \/ WalkSubgroup
    \/ WalkSubcommand
    \/ WalkReturn
    \/ WalkOver

\* The thread that registers runs on: a call that can take a step takes it.
SpecWalk ==
    /\ Init /\ [][NextWalk]_vars
    /\ WF_vars(WalkSubgroup \/ WalkSubcommand \/ WalkReturn)

(***************************************************************************)
(* Properties.                                                             *)
(***************************************************************************)
Dispatched == out # NoOut

\* out is the early return of DispatchError name(a), the hook not invoked.
ReturnedError(name, a) ==
    /\ out.kind = "Dispatch"
    /\ out.err.name = name
    /\ out.err.a = a
    /\ out.hooked = 0

\* The configuration with no user, channel or guild blocked.
SenderUnblocked(cf) ==
    [cf EXCEPT !.blocked_entities.users = {},
               !.blocked_entities.channels = {},
               !.blocked_entities.guilds = {}]

GroupsUnblocked(cf) == [cf EXCEPT !.blocked_entities.groups = {}]

CommandsUnblocked(cf) == [cf EXCEPT !.blocked_entities.commands = {}]

NothingBlocked(cf) == cf.blocked_entities = BlockedEntitiesDefault

\* C1: a message whose author, channel or guild is in the corresponding
\* blocklist is answered with BlockedUser, BlockedChannel or BlockedGuild
\* carrying that id (the author's first, then the channel's, then the
\* guild's), and the hook is not invoked, whatever the content is.
C1_BlockedSenderRejected ==
    Dispatched =>
        LET m == out.msg
            b == conf.blocked_entities
            user == m.author \in b.users
            channel == m.channel_id \in b.channels
            guild == \E gid \in m.guild_id : gid \in b.guilds
        IN  /\ user => ReturnedError("BlockedUser", m.author)
            /\ ~user /\ channel => ReturnedError("BlockedChannel", m.channel_id)
            /\ ~user /\ ~channel /\ guild =>
                  \E gid \in m.guild_id : ReturnedError("BlockedGuild", gid)

\* C1 witness: a message that resolves to a command when nobody is blocked
\* was rejected for its blocked channel.
C1_Witness ==
    /\ Dispatched
    /\ ReturnedError("BlockedChannel", out.msg.channel_id)
    /\ Resolve(SenderUnblocked(conf), out.msg).kind = "Target"

\* C2 (as claimed): whenever dispatch with an empty group blocklist would
\* descend into group X and X is blocked, dispatch returns BlockedGroup(X)
\* and the hook is not invoked.
C2_BlockedGroupRejected ==
    Dispatched =>
        \A X \in conf.blocked_entities.groups :
            X \in Resolve(GroupsUnblocked(conf), out.msg).groups
                => ReturnedError("BlockedGroup", X)

\* C3 (as claimed): whenever dispatch with an empty command blocklist would
\* resolve to or through command X and X is blocked, dispatch returns
\* BlockedCommand(X) and the hook is not invoked.
C3_BlockedCommandRejected ==
    Dispatched =>
        \A X \in conf.blocked_entities.commands :
            X \in Resolve(CommandsUnblocked(conf), out.msg).commands
                => ReturnedError("BlockedCommand", X)

\* C4 (as claimed): after completed registrations, the resolution of every
\* message ends in a DispatchError or in a target for the hook; it never
\* panics.
C4_ResolutionNeverPanics ==
    Dispatched => out.kind # "Panic"

\* The message "<prefix>" followed by the given tokens.
Invocation(tokens) == out.msg.prefix = "!" /\ out.msg.tokens = tokens

\* The hook was handed command c of group g.
HandedTo(c, g) ==
    /\ out.hooked = 1
    /\ out.ctx.command_id = c
    /\ out.ctx.group_id = g

\* C5 (as claimed): for every registered group G with prefix P that owns
\* command C with name N, and nothing blocked, "<prefix>P N" resolves with
\* command_id = C and group_id = G, whatever else was registered.
C5_GroupCommandResolves ==
    Dispatched /\ NothingBlocked(conf) =>
        \A G \in DOMAIN conf.groups.items :
            LET g == conf.groups.items[G]
            IN  \A P \in Range(g.prefixes), C \in g.commands :
                    \A N \in Range(CommandConstructor(C).names) :
                        Invocation(<<P, N>>) => HandedTo(C, G)

\* C5 (amended): the same, provided the registries still bind the token P
\* to G and the token N to C (no other registration took either name over)
\* and N is not bound to a declared subgroup of G.
C5_GroupCommandResolvesWhenBound ==
    Dispatched /\ NothingBlocked(conf) =>
        \A G \in DOMAIN conf.groups.items :
            LET g == conf.groups.items[G]
            IN  \A P \in Range(g.prefixes), C \in g.commands :
                    \A N \in Range(CommandConstructor(C).names) :
                        /\ Invocation(<<P, N>>)
                        /\ \E p \in get_pair(conf.groups, Segment(conf, P)) :
                                p.id = G
                        /\ \E p \in get_pair(conf.commands, Segment(conf, N)) :
                                p.id = C
                        /\ ~ \E p \in get_pair(conf.groups, Segment(conf, N)) :
                                p.id \in g.subgroups
                        => HandedTo(C, G)

\* C5 witness: "!g a" was handed to the hook as command cA of group gG,
\* which declares the prefix "g" and owns cA.
C5_Witness ==
    /\ Dispatched
    /\ NothingBlocked(conf)
    /\ Invocation(<<"g", "a">>)
    /\ "gG" \in DOMAIN conf.groups.items
    /\ "cA" \in conf.groups.items["gG"].commands
    /\ HandedTo("cA", "gG")

\* C6 (as claimed): for every command C with canonical name N of a
\* top-level group registered with Configuration::group, and nothing
\* blocked, "<prefix>N" resolves with command_id = C and group_id = that
\* group's id.
C6_TopLevelCommandResolves ==
    Dispatched /\ NothingBlocked(conf) =>
        \A i \in 1..Len(conf.top_level_groups) :
            LET t == conf.top_level_groups[i]
            IN  \A C \in t.commands :
                    LET names == CommandConstructor(C).names
                    IN  names # <<>> /\ Invocation(<<names[1]>>)
                            => HandedTo(C, t.id)

RECURSIVE SubcommandClosure(_)
\* The commands reachable from the commands cs through subcommands.
SubcommandClosure(cs) ==
    LET more == cs \cup UNION {CommandConstructor(c).subcommands : c \in cs}
    IN  IF more = cs THEN cs ELSE SubcommandClosure(more)

RECURSIVE SubgroupClosure(_)
\* The groups reachable from the groups gs through subgroups.
SubgroupClosure(gs) ==
    LET more == gs \cup UNION {GroupConstructor(g).subgroups : g \in gs}
    IN  IF more = gs THEN gs ELSE SubgroupClosure(more)

\* The commands reachable from group g: owned by it or by a group below it,
\* or a subcommand of such a command.
ReachableCommands(g) ==
    SubcommandClosure(
        UNION {GroupConstructor(x).commands : x \in SubgroupClosure({g})})

\* The groups registered with Configuration::group.
RegisteredGroups ==
    {conf.top_level_groups[i].id : i \in 1..Len(conf.top_level_groups)}
        \cup DOMAIN conf.groups.items

\* C7 (as claimed): after completed registrations the flattened command
\* registry holds every command reachable from any registered group, by id
\* and by each of its names.
C7_RegistryHoldsReachable ==
    phase = "running" =>
        \A g \in RegisteredGroups : \A c \in ReachableCommands(g) :
            /\ c \in DOMAIN conf.commands.items
            /\ \A n \in Range(CommandConstructor(c).names) :
                  \E k \in {n, ToLowercase(n)} : k \in DOMAIN conf.commands.names

\* The registered commands, with the names each declares.
RegisteredCommands == DOMAIN conf.commands.items

DeclaredNames(c) == Range(conf.commands.items[c].names)

\* Looking name up in the flattened command registry returns command c.
LooksUp(name, c) == \E p \in get_pair(conf.commands, name) : p.id = c

\* C8 (as claimed): after completed registrations, looking up every
\* registered command by every one of its declared names returns exactly
\* that command's identity.
C8_RoundTrip ==
    phase = "running" =>
        \A c \in RegisteredCommands : \A n \in DeclaredNames(c) :
            LooksUp(Segment(conf, n), c)

\* Another registered command declares a name equal to n up to case.
NameShared(c, n) ==
    \E d \in RegisteredCommands \ {c} : \E m \in DeclaredNames(d) :
        ToLowercase(m) = ToLowercase(n)

\* C8 (amended): after completed registrations, every declared name of
\* every registered command is bound, as declared or lower-cased (as it was
\* registered), and looking it up returns that command's identity unless
\* another registered command declares the same name (up to case).
C8_RoundTripUnlessShared ==
    phase = "running" =>
        \A c \in RegisteredCommands : \A n \in DeclaredNames(c) :
            /\ \E k \in {n, ToLowercase(n)} : k \in DOMAIN conf.commands.names
            /\ ~NameShared(c, n) =>
                  \E k \in {n, ToLowercase(n)} : LooksUp(k, c)

\* C8 witness: cB, registered with the two names "b" and "h" that no other
\* command declares, is found under both.
C8_Witness ==
    /\ phase = "running"
    /\ "cB" \in RegisteredCommands
    /\ DeclaredNames("cB") = {"b", "h"}
    /\ ~NameShared("cB", "b") /\ ~NameShared("cB", "h")
    /\ LooksUp("b", "cB") /\ LooksUp("h", "cB")

\* A step that is a completed call conf.command(B).
CommandCompleted(B) ==
    /\ ncalls' = ncalls + 1
    /\ last' = [op |-> "command", arg |-> B]
    /\ phase' = "running"

\* The commands the walk of conf.command(B) registers that bind key k, under
\* the case folding in force.
WalkBinders(B, k) ==
    {c \in SubcommandClosure({B}) :
        \E n \in Range(CommandConstructor(c).names) :
            RegisteredName(conf, n) = k}

\* C9: a completed conf.command(B) that declares a name k already bound to a
\* different command A leaves k bound to a command of its walk that declares
\* k (to B itself when B is the only one), leaves A's entry in the identity
\* table as it was, and leaves every other name bound to A that no command
\* of the walk declares bound to A.
C9_RebindLastWins ==
    [][\A B \in CommandIds :
          CommandCompleted(B) =>
            \A k \in DOMAIN conf.commands.names :
                LET A == conf.commands.names[k]
                IN  A # B /\ B \in WalkBinders(B, k) =>
                      /\ k \in DOMAIN conf'.commands.names
                      /\ conf'.commands.names[k] \in WalkBinders(B, k)
                      /\ WalkBinders(B, k) = {B}
                            => conf'.commands.names[k] = B
                      /\ A \in DOMAIN conf.commands.items =>
                            /\ A \in DOMAIN conf'.commands.items
                            /\ conf'.commands.items[A] = conf.commands.items[A]
                      /\ \A k2 \in DOMAIN conf.commands.names :
                            /\ conf.commands.names[k2] = A
                            /\ WalkBinders(B, k2) = {}
                            => /\ k2 \in DOMAIN conf'.commands.names
                               /\ conf'.commands.names[k2] = A
      ]_vars

\* C9 witness: conf.command(cA) has just rebound "a", while cC, registered
\* before it (no group was) with the names "a" and "c", is still stored and
\* still found under "c".
C9_Witness ==
    /\ phase = "running"
    /\ last = [op |-> "command", arg |-> "cA"]
    /\ DOMAIN conf.groups.items = {}
    /\ LooksUp("a", "cA")
    /\ "cC" \in RegisteredCommands
    /\ DeclaredNames("cC") = {"a", "c"}
    /\ LooksUp("c", "cC")

\* C10: after every completed call of Configuration::command or
\* Configuration::group, every id a name is bound to, in the command
\* registry and in the group registry, is in the identity table.
C10_NoDanglingName ==
    phase = "running" =>
        /\ \A k \in DOMAIN conf.commands.names :
              conf.commands.names[k] \in DOMAIN conf.commands.items
        /\ \A k \in DOMAIN conf.groups.names :
              conf.groups.names[k] \in DOMAIN conf.groups.items

\* C10 witness: a completed conf.group call has left names bound in both
\* registries.
C10_Witness ==
    /\ phase = "running"
    /\ last.op = "group"
    /\ DOMAIN conf.commands.names # {}
    /\ DOMAIN conf.groups.names # {}

(***************************************************************************)
(* Diamond references and repeated registration.                           *)
(***************************************************************************)
\* The entries of the identity table that hold command c's value.
EntriesOf(c) ==
    {k \in DOMAIN conf.commands.items :
        conf.commands.items[k].function = CommandConstructor(c).function}

\* Every command of the walk of conf.command(B) has exactly one entry in the
\* identity table, under its own id.
Coalesced(B) ==
    \A c \in SubcommandClosure({B}) : EntriesOf(c) = {CommandIdFrom(c)}

\* Registering B again, from the current configuration, completes and
\* leaves the configuration as it is.
RegisteringAgainChangesNothing(B) ==
    \A o \in Command(conf, B) : o.st = "ok" /\ o.conf = conf

\* Two different commands of the walk of conf.command(B) declare the same
\* name, under the case folding in force.
WalkSharesName(B) ==
    \E c, d \in SubcommandClosure({B}) :
        /\ c # d
        /\ \E n \in Range(CommandConstructor(c).names),
              m \in Range(CommandConstructor(d).names) :
                RegisteredName(conf, n) = RegisteredName(conf, m)

\* C11 (as claimed): after a completed conf.command(B), every command of
\* its walk (reached through one path or through several) has exactly one
\* entry in the identity table, and registering B a second time leaves the
\* configuration equal to the one the first registration left.
C11_CoalescedAndIdempotent ==
    \A B \in CommandIds :
        phase = "running" /\ last = [op |-> "command", arg |-> B] =>
            Coalesced(B) /\ RegisteringAgainChangesNothing(B)

\* C11 (amended): every command of the walk has exactly one entry in the
\* identity table and a second registration leaves that table as it is; it
\* leaves the whole configuration as it is when no two commands of the walk
\* declare the same name.
C11_CoalescedAndIdempotentUnlessShared ==
    \A B \in CommandIds :
        phase = "running" /\ last = [op |-> "command", arg |-> B] =>
            /\ Coalesced(B)
            /\ \A o \in Command(conf, B) :
                  /\ o.st = "ok"
                  /\ o.conf.commands.items = conf.commands.items
                  /\ DOMAIN o.conf.commands.names = DOMAIN conf.commands.names
                  /\ [o.conf EXCEPT !.commands = conf.commands] = conf
            /\ ~WalkSharesName(B) => RegisteringAgainChangesNothing(B)

\* C11 witness: conf.command(cA) completed after conf.group(gG): cA and its
\* subcommand cB were each reached through the group and through the direct
\* registration, each has one entry, and registering cA again changes
\* nothing.
C11_Witness ==
    /\ phase = "running"
    /\ last = [op |-> "command", arg |-> "cA"]
    /\ "gG" \in DOMAIN conf.groups.items
    /\ {"cA", "cB"} \subseteq conf.groups.items["gG"].commands
    /\ "cB" \in CommandConstructor("cA").subcommands
    /\ Coalesced("cA")
    /\ ~WalkSharesName("cA")
    /\ RegisteringAgainChangesNothing("cA")

(***************************************************************************)
(* Commands without a name.                                                *)
(***************************************************************************)
Nameless(c) == CommandConstructor(c).names = <<>>

\* C12 (as claimed): a registration whose walk comes to a command without a
\* name - the command registered, a subcommand of it at any depth, or a
\* command owned by the group registered or by a group below it - does not
\* complete, and no command without a name is ever stored in the flattened
\* registry.
C12_NamelessAborts ==
    /\ \A c \in DOMAIN conf.commands.items :
          conf.commands.items[c].names # <<>>
    /\ phase = "running" =>
          /\ last.op = "command" =>
                ~ \E c \in SubcommandClosure({last.arg}) : Nameless(c)
          /\ last.op = "group" =>
                ~ \E c \in ReachableCommands(last.arg) : Nameless(c)

(***************************************************************************)
(* Top-level groups and the group registry.                                *)
(***************************************************************************)
\* Group id has left a trace in configuration cf.
Traced(cf, id) ==
    \/ \E i \in 1..Len(cf.top_level_groups) : cf.top_level_groups[i].id = id
    \/ id \in DOMAIN cf.groups.items
    \/ \E k \in DOMAIN cf.groups.names : cf.groups.names[k] = id

\* C13: in every configuration the registrations build, every group in
\* top_level_groups has no prefix and no subgroup and every group stored in
\* the group registry has at least one prefix; a call conf.group(B) for a
\* B without a prefix and with a subgroup aborts, and B is nowhere in the
\* configuration.
C13_TopLevelAndRegistry ==
    /\ \A i \in 1..Len(conf.top_level_groups) :
          /\ conf.top_level_groups[i].prefixes = <<>>
          /\ conf.top_level_groups[i].subgroups = {}
    /\ \A g \in DOMAIN conf.groups.items :
          conf.groups.items[g].prefixes # <<>>
    /\ \A B \in GroupIds :
          /\ last = [op |-> "group", arg |-> B]
          /\ GroupConstructor(B).prefixes = <<>>
          /\ GroupConstructor(B).subgroups # {}
          => phase = "aborted" /\ ~Traced(conf, B)

\* C13 witness: conf.group(gBad), a group without a prefix and with the
\* subgroup gH, aborted a configuration that holds a top-level group and
\* registered groups.
C13_Witness ==
    /\ last = [op |-> "group", arg |-> "gBad"]
    /\ phase = "aborted"
    /\ GroupConstructor("gBad").subgroups = {"gH"}
    /\ ~Traced(conf, "gBad")
    /\ conf.top_level_groups # <<>>

(***************************************************************************)
(* The order of argument kinds.                                            *)
(***************************************************************************)
\* args has the shape Required* Optional* (Variadic | Rest)?
Shaped(args) ==
    \E i, j \in 0..Len(args) :
        /\ i <= j
        /\ \A k \in 1..i : args[k] = "Required"
        /\ \A k \in (i + 1)..j : args[k] = "Optional"
        /\ \/ j = Len(args)
           \/ j + 1 = Len(args) /\ args[j + 1] \in {"Variadic", "Rest"}

\* The same, as what may follow what anywhere in the list.
Ordered(args) ==
    LET n == Len(args)
        Count(kind) == Cardinality({k \in 1..n : args[k] = kind})
    IN  /\ \A k, l \in 1..n :
              k < l /\ args[l] = "Required" => args[k] = "Required"
        /\ \A k, l \in 1..n :
              k < l /\ args[l] = "Optional" =>
                  args[k] \notin {"Variadic", "Rest"}
        /\ Count("Variadic") <= 1
        /\ Count("Rest") <= 1
        /\ Count("Variadic") + Count("Rest") <= 1

\* The position of the second argument of the first adjacent pair, from the
\* left, with which the list stops having the shape.
FirstOffence(args) ==
    CHOOSE i \in 2..Len(args) :
        /\ ~Shaped(SubSeq(args, i - 1, i))
        /\ \A k \in 2..(i - 1) : Shaped(SubSeq(args, k - 1, k))

Validated == attr.result # NotValidated

\* C14: validate_arguments_order accepts a list of argument kinds exactly
\* when it has the shape Required* Optional* (Variadic | Rest)?, which is
\* exactly when no Required follows an Optional, Variadic or Rest, no
\* Optional follows a Variadic or Rest, and at most one Variadic or Rest
\* occurs; [Optional, Required] and [Required, Variadic, Rest] are rejected,
\* [Required, Optional, Variadic] is accepted, and the error is raised at
\* the first offending adjacent pair from the left.
C14_ArgumentsOrder ==
    Validated =>
        LET args == attr.arguments
            r == attr.result
        IN  /\ r.ok <=> Shaped(args)
            /\ r.ok <=> Ordered(args)
            /\ args = <<"Optional", "Required">> => ~r.ok
            /\ args = <<"Required", "Variadic", "Rest">> => ~r.ok
            /\ args = <<"Required", "Optional", "Variadic">> => r.ok
            /\ ~r.ok => /\ r.at = FirstOffence(args)
                        /\ r.span \in {r.at - 1, r.at}
                        /\ r.msg # ""

\* C14 witness: [Required, Variadic, Rest, Required] was rejected at its
\* second pair, (Variadic, Rest), although a later pair offends too.
C14_Witness ==
    /\ Validated
    /\ attr.arguments = <<"Required", "Variadic", "Rest", "Required">>
    /\ ~attr.result.ok
    /\ attr.result.at = 3

(***************************************************************************)
(* The configuration lock.                                                 *)
(***************************************************************************)
\* C15: in every interleaving of concurrent dispatches, a dispatch that is
\* past its resolution block - about to call the hook, or with its hook
\* (the command function) running - does not hold the configuration lock.
C15_HookRunsUnlocked ==
    \A p \in Tasks : task[p].pc \in {"extracted", "hook"} => lock # p

\* C15 witness: the command function of t1's dispatch runs while t2's
\* dispatch holds the lock.
C15_Witness ==
    /\ task["t1"].pc = "hook"
    /\ task["t2"].pc = "resolve"
    /\ lock = "t2"

\* The process is inside the critical section of the configuration.
InCritical(p) ==
    task[p].pc \in {"check", "resolve", "content", "locked", "written"}

\* C16: with dispatches and the writer running concurrently, at most one
\* of them is inside the critical section, the one that holds the lock; a
\* dispatch between its reads finds the configuration as its first read saw
\* it, and what its resolution ends in is the resolution of its message
\* against that one configuration.
C16_ExclusionAndSingleState ==
    /\ Cardinality({p \in Procs : InCritical(p)}) <= 1
    /\ \A p \in Procs : InCritical(p) => lock = p
    /\ \A p \in Tasks :
          /\ task[p].pc \in {"resolve", "content"} => conf = task[p].seen
          /\ task[p].pc \in {"extracted", "hook", "done"} =>
                task[p].res = Resolve(task[p].seen, task[p].msg)

\* C16 witness: after a write, t1 is between its reads while t2 waits for
\* the lock and the writer has writes left to make.
C16_Witness ==
    /\ task["t1"].pc = "resolve"
    /\ task["t2"].pc = "lock"
    /\ task[Writer].pc = "idle"
    /\ ncalls >= 1 /\ ncalls < MaxCalls
    /\ conf = task["t1"].seen

(***************************************************************************)
(* Resolution is read-only.                                                *)
(***************************************************************************)
\* A step of task p's dispatch_with_hook from the call up to and including
\* the call of the hook, or to an early return.
ResolutionStep(p) ==
    /\ task[p].pc \in {"idle", "lock", "check", "resolve", "content",
                      "extracted"}
    /\ task'[p].pc # task[p].pc

\* C17: every step of dispatch_with_hook up to the hook call, on the path
\* to the hook and on each path to an error return, leaves the
\* configuration (prefixes, blocklist, registries, top-level groups) and
\* the user data unchanged.
C17_ResolutionReadOnly ==
    [][\A p \in Tasks :
          ResolutionStep(p) => conf' = conf /\ data' = data
      ]_vars

\* C17 witness: a dispatch has reached its hook, and another has returned
\* an error, over a configuration a writer changed and user data a command
\* function wrote.
C17_Witness ==
    /\ task["t1"].pc = "hook"
    /\ task["t2"].pc = "done"
    /\ task["t2"].r.kind = "Dispatch"
    /\ conf.blocked_entities # BlockedEntitiesDefault
    /\ data = "written"

(***************************************************************************)
(* The hook and the two error families.                                    *)
(***************************************************************************)
\* C18: dispatch_with_hook invokes the hook once when the resolution ends
\* in a target and never otherwise; it returns Error::User(e) exactly when
\* the hook returned Err(e), with that e, Ok exactly when the hook returned
\* Ok, and Error::Dispatch only when the hook was not invoked.
C18_HookOnceAndErrorFamilies ==
    Dispatched =>
        /\ out.hooked = (IF Resolve(conf, out.msg).kind = "Target" THEN 1 ELSE 0)
        /\ out.hooked = 0 <=> out.hook_returned = "none"
        /\ out.kind = "User" <=> out.hook_returned \in HookResults \ {"ok"}
        /\ out.kind = "User" => out.user_err = out.hook_returned
        /\ out.kind = "Ok" <=> out.hook_returned = "ok"
        /\ out.kind = "Dispatch" => out.hooked = 0
        /\ out.kind \in {"Ok", "User"} => out.err = NoError

\* C18 witness: the command function of cA, reached by "!g a", returned
\* the error e1 and the dispatch returned Error::User(e1).
C18_Witness ==
    /\ Dispatched
    /\ Invocation(<<"g", "a">>)
    /\ out.hooked = 1
    /\ out.ctx.function = "fn_cA"
    /\ out.hook_returned = "e1"
    /\ out.kind = "User" /\ out.user_err = "e1"

(***************************************************************************)
(* Case-insensitive names.                                                 *)
(***************************************************************************)
Spellings == {"foo", "FOO", "Foo"}

\* C19 (as claimed): with case_insensitive set and the group gFoo (prefix
\* "Foo") and its command cFoo (name "Foo") registered, every spelling of
\* "<prefix>Foo Foo" resolves to cFoo in gFoo, and resolving the message
\* again gives what was handed out.
C19_CaseFoldConsistent ==
    /\ Dispatched
    /\ conf.case_insensitive
    /\ NothingBlocked(conf)
    /\ "gFoo" \in DOMAIN conf.groups.items
    /\ "cFoo" \in DOMAIN conf.commands.items
    => /\ \A P, N \in Spellings :
             Invocation(<<P, N>>) => HandedTo("cFoo", "gFoo")
       /\ out.ctx = Resolve(conf, out.msg).target

(***************************************************************************)
(* Groups entered by a dispatch.                                           *)
(***************************************************************************)
\* The group the first token of the dispatched message is bound to.
FirstGroup ==
    IF out.msg.tokens = <<>> THEN {}
    ELSE {p.id : p \in get_pair(conf.groups,
                                Segment(conf, Head(out.msg.tokens)))}

\* C20 (as claimed): the first group a dispatch descends into was
\* registered as a root group through Configuration::group, and every
\* further group it enters is a declared subgroup of a group entered before
\* it; a group registered only as a subgroup is not entered by naming its
\* prefix as the first token.
C20_EnteredAlongDeclaredPaths ==
    Dispatched /\ NothingBlocked(conf) =>
        LET entered == Resolve(conf, out.msg).groups
        IN  entered # {} =>
              /\ FirstGroup \subseteq entered
              /\ FirstGroup \subseteq roots
              /\ \A g \in entered \ FirstGroup :
                    \E h \in entered :
                        g \in conf.groups.items[h].subgroups
              /\ \A g \in DOMAIN conf.groups.items \ roots :
                    FirstGroup = {g} => out.ctx.group_id # g

(***************************************************************************)
(* The subcommand descent.                                                 *)
(***************************************************************************)
\* Command c declares the command the token leads to as a subcommand.
NamesSubcommandOf(token, c) ==
    \E p \in get_pair(conf.commands, Segment(conf, token)) :
        p.id \in conf.commands.items[c].subcommands

\* C21 (as claimed): the token that ends the subcommand descent names no
\* declared subcommand of the resolved command and is the first token of
\* the arguments, and dispatch returns BlockedCommand(X) only when X is a
\* declared subcommand of a command the descent has reached.
C21_DescentStopsAtUndeclared ==
    Dispatched =>
        /\ out.hooked = 1 /\ out.ctx.args # <<>> =>
              ~NamesSubcommandOf(Head(out.ctx.args), out.ctx.command_id)
        /\ \A X \in CommandIds :
              ReturnedError("BlockedCommand", X) =>
                  \E c \in Resolve(conf, out.msg).commands :
                      X \in conf.commands.items[c].subcommands

(***************************************************************************)
(* The arguments handed to the hook.                                       *)
(***************************************************************************)
\* The (id, command) pairs the i-th token of the dispatched message leads to.
NamedBy(i) == get_pair(conf.commands, Segment(conf, out.msg.tokens[i]))

\* The tokens the group loop consumed: one for each group entered.
GroupTokens == Cardinality(Resolve(conf, out.msg).groups)

\* The hook was invoked by way of the command lookup: a token was left for
\* the command when the group loop ended.
ThroughCommandLookup ==
    Dispatched /\ out.hooked = 1 /\ Len(out.msg.tokens) > GroupTokens

\* C22: when the hook is invoked by way of the command lookup, args is the
\* suffix of the content after the last accepted token: the tokens from the
\* one after the groups to that one name the command and then, each, a
\* declared subcommand of the one before; the last of them names the
\* command the hook is given; and the first token of args, if any, is the
\* one that stopped the descent.
C22_ArgsIsUnconsumedSuffix ==
    ThroughCommandLookup =>
        LET tokens == out.msg.tokens
            args == out.ctx.args
            n == Len(tokens) - Len(args)
        IN  /\ Len(args) < Len(tokens) /\ n > GroupTokens
            /\ args = SubSeq(tokens, n + 1, Len(tokens))
            /\ \A i \in (GroupTokens + 1)..n : NamedBy(i) # {}
            /\ \A i \in (GroupTokens + 2)..n :
                  \E p \in NamedBy(i), q \in NamedBy(i - 1) :
                      p.id \in q.value.subcommands
            /\ \E p \in NamedBy(n) : p.id = out.ctx.command_id
            /\ args # <<>> =>
                  ~NamesSubcommandOf(Head(args), out.ctx.command_id)

\* C22 witness: "!a h a" went from cA into its subcommand cB at "h" and the
\* hook was given cB with the arguments "a".
C22_Witness ==
    /\ ThroughCommandLookup
    /\ Invocation(<<"a", "h", "a">>)
    /\ out.ctx.command_id = "cB"
    /\ out.ctx.args = <<"a">>

(***************************************************************************)
(* The name handed to the hook.                                            *)
(***************************************************************************)
\* C23 (as claimed): the command_name the hook is given is, up to the case
\* of its letters, one of the names of the command its command_id
\* identifies, also after a descent into subcommands.
C23_NameOfResolvedCommand ==
    Dispatched /\ out.hooked = 1 =>
        \E n \in DeclaredNames(out.ctx.command_id) :
            ToLowercase(n) = ToLowercase(out.ctx.command_name)

(***************************************************************************)
(* The default command of a group.                                         *)
(***************************************************************************)
\* Every token of the dispatched message was consumed by entering a group.
RanOutInGroup ==
    /\ Dispatched
    /\ out.msg.tokens # <<>>
    /\ content(conf, out.msg) # {}
    /\ GroupTokens = Len(out.msg.tokens)

\* The group the last token of the dispatched message leads to.
LastGroup ==
    get_by_name(conf.groups,
                Segment(conf, out.msg.tokens[Len(out.msg.tokens)]))

\* The hook was given the default command of group g, under its first name
\* and with no arguments.
HandedDefaultOf(g) ==
    /\ out.hooked = 1
    /\ out.ctx.group_id = g.id
    /\ out.ctx.command_id = g.default_command
    /\ LET names == CommandConstructor(g.default_command).names
       IN  names # <<>> /\ out.ctx.command_name = names[1]
    /\ out.ctx.args = <<>>

\* C24 (as claimed): when the tokens run out inside group g, the hook is
\* given g's default command if g has one and dispatch returns
\* MissingContent otherwise; MissingContent is returned only after a group
\* was entered.
C24_DefaultOrMissingContent ==
    /\ RanOutInGroup =>
          \A g \in LastGroup :
              IF g.default_command # NoId
              THEN HandedDefaultOf(g)
              ELSE ReturnedError("MissingContent", NoId)
    /\ Dispatched /\ out.err.name = "MissingContent" =>
          Resolve(conf, out.msg).groups # {}

(***************************************************************************)
(* A command of another group.                                             *)
(***************************************************************************)
\* The group loop of the dispatch ended with a candidate name left for the
\* command lookup: a group was entered, a token follows the tokens that
\* entered groups, and no blocked group stopped the dispatch.
LeftGroupLoop ==
    /\ Dispatched
    /\ content(conf, out.msg) # {}
    /\ GroupTokens > 0
    /\ Len(out.msg.tokens) > GroupTokens
    /\ out.err.name # "BlockedGroup"

\* The group the dispatch was in when it left the group loop.
CurrentGroup ==
    get_by_name(conf.groups, Segment(conf, out.msg.tokens[GroupTokens]))

\* The commands the candidate name leads to in the flattened registry.
Candidate == {p.value : p \in NamedBy(GroupTokens + 1)}

\* C25: when, inside group g, the candidate name left for the command
\* lookup leads in the flattened registry to a command g does not list,
\* dispatch returns InvalidCommand(g, that command) and the hook is not
\* invoked, whatever other command of g declares the same name.
C25_InvalidCommandOfOtherGroup ==
    LeftGroupLoop =>
        \A g \in CurrentGroup : \A c \in Candidate :
            c.id \notin g.commands =>
                /\ ReturnedError("InvalidCommand", g.id)
                /\ out.err.b = c.id

\* C25 witness: gG owns cA, declared under the name "a"; the name was then
\* bound to cC, which gG does not own, and "!g a" was answered with
\* InvalidCommand(gG, cC).
C25_Witness ==
    /\ LeftGroupLoop
    /\ Invocation(<<"g", "a">>)
    /\ \E g \in CurrentGroup :
          /\ g.id = "gG"
          /\ "cA" \in g.commands
          /\ "a" \in DeclaredNames("cA")
    /\ ReturnedError("InvalidCommand", "gG")
    /\ out.err.b = "cC"

(***************************************************************************)
(* A name of a group and of a command.                                     *)
(***************************************************************************)
\* The groups the i-th token of the dispatched message leads to.
GroupNamedBy(i) == get_by_name(conf.groups, Segment(conf, out.msg.tokens[i]))

\* The groups the dispatch entered.
Entered == Resolve(conf, out.msg).groups

\* Token i stands inside group g: the tokens before it entered groups, the
\* last of them g.
InsideAt(g, i) ==
    /\ i \in 2..Len(out.msg.tokens)
    /\ i - 1 <= GroupTokens
    /\ g \in GroupNamedBy(i - 1)

\* Token i names subgroup s of g, not blocked, and a command g owns.
NamesSubgroupAndCommand(g, s, i) ==
    /\ s \in GroupNamedBy(i)
    /\ s.id \in g.subgroups
    /\ s.id \notin conf.blocked_entities.groups
    /\ \E c \in NamedBy(i) : c.id \in g.commands

\* After token i entered group s: s's default command or MissingContent
\* when i is the last token, and no command in the group left behind.
DescendedAt(s, i) ==
    /\ s.id \in Entered
    /\ GroupTokens >= i
    /\ i = Len(out.msg.tokens) =>
          IF s.default_command # NoId
          THEN HandedDefaultOf(s)
          ELSE ReturnedError("MissingContent", NoId)
    /\ out.hooked = 1 => out.ctx.group_id \in Entered

\* C26: inside group g, a token that names a declared subgroup s of g (not
\* blocked) and a command g owns makes the dispatch descend into s, which
\* then needs a further token or s's default command, and the command is
\* not resolved in g; a first token that names a root group and a command
\* enters the group.
C26_GroupBeforeCommand ==
    Dispatched /\ content(conf, out.msg) # {} =>
        /\ \A i \in 2..Len(out.msg.tokens) :
              \A g \in GroupNamedBy(i - 1), s \in GroupNamedBy(i) :
                  InsideAt(g, i) /\ NamesSubgroupAndCommand(g, s, i) =>
                      /\ DescendedAt(s, i)
                      /\ out.hooked = 1 => out.ctx.group_id # g.id
        /\ out.msg.tokens # <<>> =>
              \A r \in GroupNamedBy(1) :
                  r.id \in roots /\ NamedBy(1) # {} =>
                      /\ r.id \in Entered
                      /\ out.hooked = 1 => out.ctx.group_id \in Entered

\* C26 witness: in "!g h" the token "h" names gH, a subgroup of gG, and cB,
\* a command of gG; the hook was given the default command of gH.
C26_Witness ==
    /\ Dispatched
    /\ Invocation(<<"g", "h">>)
    /\ \E g \in GroupNamedBy(1), s \in GroupNamedBy(2) :
          /\ g.id = "gG" /\ s.id = "gH"
          /\ InsideAt(g, 2)
          /\ NamesSubgroupAndCommand(g, s, 2)
          /\ \E c \in NamedBy(2) : c.id = "cB"
          /\ HandedDefaultOf(s)

(***************************************************************************)
(* The order of the early exits.                                           *)
(***************************************************************************)
\* The first check of the dispatched message that fails, in the order
\* author, channel, guild, prefix, first token; "" when none fails.
FirstFailingCheck ==
    LET m == out.msg
        b == conf.blocked_entities
    IN  IF m.author \in b.users THEN "BlockedUser"
        ELSE IF m.channel_id \in b.channels THEN "BlockedChannel"
        ELSE IF \E gid \in m.guild_id : gid \in b.guilds THEN "BlockedGuild"
        ELSE IF \A i \in 1..Len(conf.prefixes) : conf.prefixes[i] # m.prefix
        THEN "NormalMessage"
        ELSE IF m.tokens = <<>> THEN "PrefixOnly"
        ELSE ""

EarlyExits == {"BlockedUser", "BlockedChannel", "BlockedGuild",
               "NormalMessage", "PrefixOnly"}

\* C27: the result of a dispatch is the early exit of the first failing
\* check in the order author, channel, guild, prefix, first token, and is
\* none of the five when no check fails; NormalMessage and PrefixOnly are
\* returned only when author, channel and guild are not blocked.
C27_EarlyExitOrder ==
    Dispatched =>
        /\ FirstFailingCheck # "" =>
              /\ out.kind = "Dispatch"
              /\ out.err.name = FirstFailingCheck
              /\ out.hooked = 0
        /\ FirstFailingCheck = "" => out.err.name \notin EarlyExits
        /\ out.err.name \in {"NormalMessage", "PrefixOnly"} =>
              BlockedSender(conf, out.msg) = {}

\* C27 witness: a message without the prefix, of a blocked author in a
\* blocked channel, was answered with BlockedUser.
C27_Witness ==
    /\ Dispatched
    /\ out.msg.prefix = "?"
    /\ out.msg.author \in conf.blocked_entities.users
    /\ out.msg.channel_id \in conf.blocked_entities.channels
    /\ ReturnedError("BlockedUser", out.msg.author)

(***************************************************************************)
(* Ids of the registered values.                                           *)
(***************************************************************************)
\* Value v under key k is what constructor ctor of the set builds, with the
\* id derived from ctor in place of the one the constructor left.
CommandBuiltBy(ctor, k, v) ==
    /\ CommandIdFrom(ctor) = k
    /\ v = [CommandConstructor(ctor) EXCEPT !.id = k]

GroupBuiltBy(ctor, k, v) ==
    /\ GroupIdFrom(ctor) = k
    /\ v = [GroupConstructor(ctor) EXCEPT !.id = k]

\* C28: every entry (k, v) of the command registry and of the group
\* registry has v.id = k, the id derived from the constructor that built
\* v, and every top-level group carries the id derived from the
\* constructor Configuration::group was given, whatever id the constructor
\* left in the value; a constructor registered again (the latest call
\* names one registered before) is stored under the same id.
C28_IdsDerivedFromConstructor ==
    /\ \A k \in DOMAIN conf.commands.items :
          LET v == conf.commands.items[k]
          IN  v.id = k /\ \E ctor \in CommandIds : CommandBuiltBy(ctor, k, v)
    /\ \A k \in DOMAIN conf.groups.items :
          LET v == conf.groups.items[k]
          IN  v.id = k /\ \E ctor \in GroupIds : GroupBuiltBy(ctor, k, v)
    /\ \A i \in 1..Len(conf.top_level_groups) :
          LET v == conf.top_level_groups[i]
          IN  v.id \in roots /\ GroupBuiltBy(v.id, v.id, v)
    /\ phase = "running" /\ last.op = "command" =>
          /\ CommandIdFrom(last.arg) \in DOMAIN conf.commands.items
          /\ CommandBuiltBy(last.arg, CommandIdFrom(last.arg),
                            conf.commands.items[CommandIdFrom(last.arg)])
    /\ phase = "running" /\ last.op = "group"
            /\ GroupConstructor(last.arg).prefixes # <<>> =>
          /\ GroupIdFrom(last.arg) \in DOMAIN conf.groups.items
          /\ GroupBuiltBy(last.arg, GroupIdFrom(last.arg),
                          conf.groups.items[GroupIdFrom(last.arg)])

\* C28 witness: cC and gH, whose constructors write another id, were
\* registered by a call of Configuration::group, and the next call
\* registered cC again through Configuration::command.
C28_Witness ==
    /\ phase = "running"
    /\ "cC" \in DOMAIN conf.commands.items
    /\ CommandConstructor("cC").id # "cC"
    /\ "gH" \in DOMAIN conf.groups.items
    /\ GroupConstructor("gH").id # "gH"
    /\ ncalls = 2
    /\ last.op = "command" /\ last.arg = "cC"

(***************************************************************************)
(* The lock and the suspension points of a dispatch.                       *)
(***************************************************************************)
\* Task p is suspended inside parse::content.
SuspendedInContent(p) == task[p].pc = "content"

\* C29: a dispatch holds the configuration lock from before the checks on
\* the sender and throughout its suspension inside parse::content; while
\* it is suspended there no other dispatch and no writer is inside the
\* critical section; at the suspension point after prefix resolution (the
\* hook) it does not hold the lock.
C29_LockHeldAcrossContent ==
    \A p \in Tasks :
        /\ task[p].pc \in {"check", "resolve", "content"} => lock = p
        /\ SuspendedInContent(p) =>
              \A q \in Procs \ {p} : ~InCritical(q)
        /\ task[p].pc = "hook" => lock # p

\* C29 witness: t1 is suspended inside parse::content holding the lock
\* while t2 waits for the lock and the writer has a write to make.
C29_Witness ==
    /\ SuspendedInContent("t1")
    /\ lock = "t1"
    /\ task["t2"].pc = "lock"
    /\ task[Writer].pc = "idle"
    /\ ncalls < MaxCalls

(***************************************************************************)
(* Termination of a dispatch.                                              *)
(***************************************************************************)
\* The tokens a resolution accepted: one for each group entered and one for
\* each command gone through, but none for a default command.
Accepted(m, res) ==
    Cardinality(res.groups) + Cardinality(res.commands)
        - (IF res.kind = "Target" /\ Cardinality(res.groups) = Len(m.tokens)
           THEN 1 ELSE 0)

\* C30 (as claimed): under a fair lock and with a returning prefix callback
\* and hook, every one of the concurrent dispatches ends: its loops accept
\* no more tokens than the message has, it ends by returning (an error, or
\* what the hook returned) and not by unwinding, it does not hold the lock
\* when it has ended, and every dispatch that was called does end.
C30_EveryDispatchReturns ==
    /\ [](\A p \in Tasks :
            task[p].pc = "done" =>
                /\ Accepted(task[p].msg, task[p].res) <= Len(task[p].msg.tokens)
                /\ task[p].r.kind # "Panic"
                /\ lock # p)
    /\ \A p \in Tasks : (task[p].pc = "lock") ~> (task[p].pc = "done")

(***************************************************************************)
(* Termination of the registration walk.                                   *)
(***************************************************************************)
\* What constructor n refers to: a command's subcommands, a group's
\* subgroups and commands.
References(n) ==
    IF n \in GroupIds \cup CyclicGroupIds
    THEN GroupConstructor(n).subgroups \cup GroupConstructor(n).commands
    ELSE CommandConstructor(n).subcommands

RECURSIVE ReferenceClosure(_)
\* The constructors reachable from those of ns, ns included.
ReferenceClosure(ns) ==
    LET more == ns \cup UNION {References(n) : n \in ns}
    IN  IF more = ns THEN ns ELSE ReferenceClosure(more)

\* Below n, a command lists itself or an ancestor as a subcommand, or a
\* group reaches itself through its subgroups.
Cyclic(n) ==
    \E x \in ReferenceClosure({n}) : x \in ReferenceClosure(References(x))

RECURSIVE Paths(_, _)
\* The number of paths of references from n to x in an acyclic graph.
Paths(n, x) ==
    IF n = x THEN 1
    ELSE LET refs == References(n)
             RECURSIVE Sum(_)
             Sum(S) == IF S = {} THEN 0
                       ELSE LET y == CHOOSE z \in S : TRUE
                            IN  Paths(y, x) + Sum(S \ {y})
         IN  Sum(refs)

\* C31 (as claimed): a registration call over an acyclic graph of
\* references neither exhausts the stack nor goes on for ever, and when it
\* completes the walk has run every constructor once for each path that
\* leads to it; a call over a graph in which a command lists itself or an
\* ancestor as a subcommand, or a group reaches itself through its
\* subgroups, never completes.
C31_WalkTerminatesUnlessCyclic ==
    /\ [](walk.st # "idle" =>
            /\ Cyclic(walk.root) => walk.st # "completed"
            /\ ~Cyclic(walk.root) =>
                  /\ walk.st # "overflow"
                  /\ walk.st = "completed" =>
                        \A x \in WalkIds :
                            walk.runs[x] = Paths(walk.root, x))
    /\ (walk.st = "walking" /\ ~Cyclic(walk.root))
          ~> (walk.st \in {"completed", "panicked"})

=============================================================================
